---- MODULE Spec2Model ----
(***************************************************************************)
(* Model of the Rust workshop skin downloader (src/downloader2_2.cpp):     *)
(* the controller (main), the pass scheduler (runPass), the instance       *)
(* workers (workerInstance), the external tool (steamcmd) as environment,  *)
(* the log classifier (parseSteamCmdLog) and the shared filesystem trees   *)
(* reduced to the predicate the program tests (folderHasFiles).            *)
(***************************************************************************)
EXTENDS Integers, Sequences, FiniteSets, TLC

\* ------------------------------------------------------------------ bounds
NumIds == 2        \* identifiers an input file may hold
MaxInst == 4       \* largest "Max parallel SteamCMD instances" answer

\* Bounds of the working sets and instance bounds runPass is applied to when
\* it is checked alone.
MaxSetLen == 8
MaxBound == 8

\* Bounds of the manifest patcher's inputs: identifiers that occur in the
\* manifest and in the content folder, executions in a row.
MaxSkins == 2
MaxRuns == 2

MaxPieces == 3

\* Lines of a log the classifier is run on when it is checked line by line.
MaxLogLen == 2

\* Instance directories the cleanup tool may find (at most MaxInst).  The
\* directories affect one another through the shared tree alone, and every
\* content of the shared tree is an initial state.
MaxDirs == 1

\* --------------------------------------------------------------- constants
MAX_RETRY_PASSES == 3

BASE_TIMEOUT_SEC == 90

RATELIMIT_BACKOFF_SEC == 30

MIN_ID_DIGITS == 6

MAX_ID_DIGITS == 12

Ids == 1..NumIds
Threads == 0..(MaxInst - 1)

NoEntry == "NoEntry"   \* skinResults.find(id) == skinResults.end()

SkinResult ==
  {"Success", "Skipped", "Timeout", "RateLimit", "LockFailed",
   "ValidationFailed", "Error", "Unknown"}

Min(a, b) == IF a < b THEN a ELSE b

Max(a, b) == IF a > b THEN a ELSE b

Range(s) == {s[i] : i \in 1..Len(s)}

VARIABLES
  ctl,                  \* position of main: "preflight", "input", "join", "backoff", "exited"
  exitCode,             \* value returned by main, -1 while it runs
  allIds,               \* parseIds("ImportedSkins.json")
  maxInstances,         \* the user's answer, clamped to >= 1
  toProcess,            \* work list of the first pass
  pass,                 \* number of the pass dispatched last (0: none yet)
  instances,            \* the bound runPass was called with for that pass
  workset,              \* toDownload of that pass
  chunks,               \* partition(toDownload, n) of that pass
  skinResults,          \* the OutcomeMap
  cnt,                  \* the atomic counters
  anyRateLimitDetected, \* the global rate-limit flag
  shared,               \* ids whose shared content directory hasFiles
  inst,                 \* per instance dir: ids whose content directory hasFiles
  wpc,                  \* position of each worker thread
  proc,                 \* state of each worker's external process
  timedOut,             \* workerInstance's local timedOut
  report,               \* failed_ids.txt as written by writeReport
  call                  \* a single call of one function on chosen arguments

vars ==
  <<ctl, exitCode, allIds, maxInstances, toProcess, pass, instances, workset,
    chunks, skinResults, cnt, anyRateLimitDetected, shared, inst, wpc, proc,
    timedOut, report, call>>

NotWritten == [written |-> FALSE, failed |-> <<>>]

NoCall == [op |-> "none"]

ZeroCounters ==
  [success |-> 0, failed |-> 0, skipped |-> 0, timeout |-> 0, error |-> 0,
   ratelimit |-> 0, lockFail |-> 0, validationFail |-> 0, total |-> 0]

EmptyPerItem == [i \in {} |-> "Unknown"]

Init ==
  /\ ctl = "preflight"
  /\ exitCode = -1
  /\ allIds = <<>>
  /\ maxInstances = 0
  /\ toProcess = <<>>
  /\ pass = 0
  /\ instances = 0
  /\ workset = <<>>
  /\ chunks = <<>>
  /\ skinResults = [i \in Ids |-> NoEntry]
  /\ cnt = ZeroCounters
  /\ anyRateLimitDetected = FALSE
  /\ shared \in SUBSET Ids
  /\ inst = [t \in Threads |-> {}]
  /\ wpc = [t \in Threads |-> "idle"]
  /\ proc = [t \in Threads |-> "none"]
  /\ timedOut = [t \in Threads |-> FALSE]
  /\ report = NotWritten
  /\ call = NoCall

\* ------------------------------------------------------- log classifier
\* A log line is reduced to the pattern it matches first in the classifier's
\* if-chain ("kind"), the identifier the pattern captures (0: none) and, for
\* the two patterns that capture a reason, the substrings the classifier
\* searches the reason for ("OK" stands for the reason being exactly OK).
Line(k, i, r) == [kind |-> k, id |-> i, reason |-> r]

NewParsedLog ==
  [perItem |-> EmptyPerItem, globalRateLimit |-> FALSE, globalTimeout |-> FALSE,
   globalLockFailed |-> FALSE, globalValidationFail |-> FALSE,
   successCount |-> 0, failureCount |-> 0, lastId |-> 0]

\* A guard-less assignment result.perItem[id] = sr.
SetAlways(perItem, id, sr) ==
  [i \in DOMAIN perItem \cup {id} |-> IF i = id THEN sr ELSE perItem[i]]

\* result.perItem[id] = sr, guarded by result.perItem.count(id)
SetIfPresent(perItem, id, sr) ==
  IF id \in DOMAIN perItem THEN [perItem EXCEPT ![id] = sr] ELSE perItem

\* An upgrade that does not look at the outcome lastId has.
UpgradeLastAnyOutcome(perItem, lastId, sr) ==
  IF lastId # 0 /\ lastId \in DOMAIN perItem
  THEN [perItem EXCEPT ![lastId] = sr]
  ELSE perItem

\* the lastId upgrade of the identifier-less failure lines
UpgradeLast(perItem, lastId, sr) ==
  IF lastId # 0 /\ lastId \in DOMAIN perItem
     /\ perItem[lastId] \in {"Error", "Unknown"}
  THEN [perItem EXCEPT ![lastId] = sr]
  ELSE perItem

ResultReasonTimeoutFirst(reason) ==
  IF "OK" \in reason \/ "Success" \in reason THEN "Success"
  ELSE IF "Timeout" \in reason THEN "Timeout"
  ELSE IF "Locking Failed" \in reason \/ "locked" \in reason THEN "LockFailed"
  ELSE IF "rate" \in reason \/ "Rate" \in reason THEN "RateLimit"
  ELSE "Error"

ResultReason(reason) ==
  IF "OK" \in reason \/ "Success" \in reason THEN "Success"
  ELSE IF "Locking Failed" \in reason \/ "locked" \in reason THEN "LockFailed"
  ELSE IF "Timeout" \in reason THEN "Timeout"
  ELSE IF "rate" \in reason \/ "Rate" \in reason THEN "RateLimit"
  ELSE "Error"

ErrorReason(reason) ==
  IF "Timeout" \in reason THEN "Timeout"
  ELSE IF "rate" \in reason \/ "Rate" \in reason THEN "RateLimit"
  ELSE "Error"

ParseLine(st, line) ==
  CASE line.kind = "result" ->
         LET sr == ResultReason(line.reason) IN
         [st EXCEPT
            !.lastId = line.id,
            !.successCount = IF sr = "Success" THEN @ + 1 ELSE @,
            !.failureCount = IF sr = "Success" THEN @ ELSE @ + 1,
            !.globalLockFailed = @ \/ sr = "LockFailed",
            !.globalTimeout = @ \/ sr = "Timeout",
            !.globalRateLimit = @ \/ sr = "RateLimit",
            !.perItem = SetIfPresent(@, line.id, sr)]
    [] line.kind = "validationId" ->
         [st EXCEPT
            !.perItem = SetIfPresent(@, line.id, "ValidationFailed"),
            !.globalValidationFail = TRUE]
    [] line.kind = "validationNoId" ->
         [st EXCEPT
            !.globalValidationFail = TRUE,
            !.perItem = UpgradeLast(@, st.lastId, "ValidationFailed")]
    [] line.kind = "patchLock" ->
         [st EXCEPT
            !.globalLockFailed = TRUE,
            !.perItem = UpgradeLast(@, st.lastId, "LockFailed")]
    [] line.kind = "success" ->
         [st EXCEPT
            !.perItem = SetIfPresent(@, line.id, "Success"),
            !.successCount = IF line.id \in DOMAIN st.perItem THEN @ + 1 ELSE @,
            !.lastId = line.id]
    [] line.kind = "error" ->
         LET sr == ErrorReason(line.reason) IN
         [st EXCEPT
            !.lastId = line.id,
            !.globalTimeout = @ \/ sr = "Timeout",
            !.globalRateLimit = @ \/ sr = "RateLimit",
            !.perItem = SetIfPresent(@, line.id, sr),
            !.failureCount = @ + 1]
    [] line.kind = "timeout" ->
         [st EXCEPT
            !.perItem = SetIfPresent(@, line.id, "Timeout"),
            !.globalTimeout = TRUE,
            !.failureCount = @ + 1,
            !.lastId = line.id]
    [] line.kind = "rateLimit" ->
         [st EXCEPT !.globalRateLimit = TRUE]
    [] OTHER -> st

RECURSIVE ParseLines(_, _, _)
ParseLines(st, log, i) ==
  IF i > Len(log) THEN st ELSE ParseLines(ParseLine(st, log[i]), log, i + 1)

Unreadable == <<Line("unreadable", 0, {})>>

\* parseSteamCmdLog(logPath, chunk); log = Unreadable when the file cannot be
\* opened, in which case the result is returned before perItem is filled.
parseSteamCmdLog(log, chunk) ==
  IF log = Unreadable THEN NewParsedLog
  ELSE ParseLines([NewParsedLog EXCEPT
                     !.perItem = [i \in Range(chunk) |-> "Unknown"]], log, 1)

\* ------------------------------------------------ filesystem and reconcile
\* What fs::rename / fs::copy / fs::remove_all can do to one skin directory:
\* the directory arrives (by rename or by the copy fallback), or the fallback
\* throws after copying some files, or before copying any.
MoveKinds == {"moved", "copyFailedPartial", "copyFailed"}

\* moveSkinToShared that reports a move it did not verify.
moveSkinToSharedUnverified(srcHas, dstHas, mv) ==
  IF dstHas THEN [moved |-> TRUE, src |-> srcHas, dst |-> TRUE]
  ELSE IF ~srcHas THEN [moved |-> FALSE, src |-> FALSE, dst |-> FALSE]
  ELSE IF mv = "moved" THEN [moved |-> TRUE, src |-> FALSE, dst |-> TRUE]
  ELSE [moved |-> TRUE, src |-> TRUE, dst |-> (mv = "copyFailedPartial")]

\* moveSkinToShared for one identifier: srcHas = folderHasFiles(src),
\* dstHas = folderHasFiles(dst) before the call.
moveSkinToShared(srcHas, dstHas, mv) ==
  IF dstHas THEN [moved |-> TRUE, src |-> srcHas, dst |-> TRUE]
  ELSE IF ~srcHas THEN [moved |-> FALSE, src |-> FALSE, dst |-> FALSE]
  ELSE IF mv = "moved" THEN [moved |-> TRUE, src |-> FALSE, dst |-> TRUE]
  ELSE [moved |-> FALSE, src |-> TRUE, dst |-> (mv = "copyFailedPartial")]

\* Reconcile that believes a Success of the log without files.
ReconcileResultTrustsLog(sr, moved, inShared, tmo) ==
  LET s1 == IF moved \/ inShared \/ sr = "Success" THEN "Success" ELSE sr
  IN IF tmo /\ s1 # "Success" THEN "Timeout" ELSE s1

\* Reconcile that keeps a failure of the log although the files are there.
ReconcileResultKeepsFailure(sr, moved, inShared, tmo) ==
  LET s1 == IF sr \in {"LockFailed", "RateLimit", "Timeout"} THEN sr
            ELSE IF moved \/ inShared THEN "Success"
            ELSE IF sr = "Success" THEN "ValidationFailed"
            ELSE sr
  IN IF tmo /\ s1 # "Success" THEN "Timeout" ELSE s1

\* Reconcile without the hard-timeout override.
ReconcileResultNoTimeout(sr, moved, inShared, tmo) ==
  IF moved \/ inShared THEN "Success"
  ELSE IF sr = "Success" THEN "ValidationFailed"
  ELSE sr

\* The outcome the reconcile loop settles on before the counter switch.
ReconcileResult(sr, moved, inShared, tmo) ==
  LET s1 == IF moved \/ inShared THEN "Success"
            ELSE IF sr = "Success" THEN "ValidationFailed"
            ELSE sr
  IN IF tmo /\ s1 # "Success" THEN "Timeout" ELSE s1

\* The counter switch; its default branch also rewrites sr to Error.
CountResult(c, sr) ==
  CASE sr = "Success" -> [c EXCEPT !.success = @ + 1, !.total = @ + 1]
    [] sr = "Timeout" ->
         [c EXCEPT !.timeout = @ + 1, !.failed = @ + 1, !.total = @ + 1]
    [] sr = "RateLimit" ->
         [c EXCEPT !.ratelimit = @ + 1, !.failed = @ + 1, !.total = @ + 1]
    [] sr = "LockFailed" ->
         [c EXCEPT !.lockFail = @ + 1, !.failed = @ + 1, !.total = @ + 1]
    [] sr = "ValidationFailed" ->
         [c EXCEPT !.validationFail = @ + 1, !.failed = @ + 1, !.total = @ + 1]
    [] OTHER -> [c EXCEPT !.error = @ + 1, !.failed = @ + 1, !.total = @ + 1]

\* A counter switch that leaves sr as it is.
RecordedAsClassified(sr) == sr

\* The outcome stored in skinResults after the counter switch.
Recorded(sr) ==
  IF sr \in {"Success", "Timeout", "RateLimit", "LockFailed", "ValidationFailed"}
  THEN sr ELSE "Error"

\* One iteration of the reconcile loop on the state st =
\* [res: skinResults, c: counters, sh: shared, in: this instance's tree].
ReconcileOne(st, id, perItem, tmo, mv) ==
  LET sr0 == IF id \in DOMAIN perItem THEN perItem[id] ELSE "Unknown"
      m == moveSkinToShared(id \in st.in, id \in st.sh, mv)
      sh1 == IF m.dst THEN st.sh \cup {id} ELSE st.sh
      in1 == IF m.src THEN st.in ELSE st.in \ {id}
      sr == ReconcileResult(sr0, m.moved, id \in sh1, tmo)
  IN [res |-> [st.res EXCEPT ![id] = Recorded(sr)],
      c |-> CountResult(st.c, sr),
      sh |-> sh1,
      in |-> in1]

RECURSIVE ReconcileLoop(_, _, _, _, _, _)
ReconcileLoop(st, chunk, i, perItem, tmo, mvs) ==
  IF i > Len(chunk) THEN st
  ELSE ReconcileLoop(ReconcileOne(st, chunk[i], perItem, tmo, mvs[chunk[i]]),
                     chunk, i + 1, perItem, tmo, mvs)

\* --------------------------------------------------------- pass scheduler
\* A partitioner that gives the whole remainder to the first chunk.
RECURSIVE PartitionFromFrontLoaded(_, _, _, _)
PartitionFromFrontLoaded(ids, n, i, idx) ==
  IF i >= n THEN <<>>
  ELSE LET base == Len(ids) \div n
           rem == Len(ids) % n
           sz == Min(base + (IF i = 0 THEN rem ELSE 0), Len(ids) - idx)
       IN <<SubSeq(ids, idx + 1, idx + sz)>>
            \o PartitionFromFrontLoaded(ids, n, i + 1, idx + sz)

RECURSIVE PartitionFrom(_, _, _, _)
PartitionFrom(ids, n, i, idx) ==
  IF i >= n THEN <<>>
  ELSE LET base == Len(ids) \div n
           rem == Len(ids) % n
           sz == Min(base + (IF i < rem THEN 1 ELSE 0), Len(ids) - idx)
       IN <<SubSeq(ids, idx + 1, idx + sz)>> \o PartitionFrom(ids, n, i + 1, idx + sz)

partition(ids, n) == PartitionFrom(ids, n, 0, 0)

\* ------------------------------------------------------------ retry logic
\* collectFailed without the test for Success.
collectFailedKeepsSuccess(ids) ==
  SelectSeq(ids, LAMBDA id: skinResults[id] # NoEntry
                            /\ skinResults[id] # "Skipped")

collectFailed(ids) ==
  SelectSeq(ids, LAMBDA id: skinResults[id] # NoEntry
                            /\ skinResults[id] # "Success"
                            /\ skinResults[id] # "Skipped")

\* A reset that leaves the Processed counter as it was.
ResetOneKeepsTotal(st, id) ==
  IF st.res[id] = NoEntry THEN st
  ELSE LET c1 == CASE st.res[id] = "Timeout" -> [st.c EXCEPT !.timeout = @ - 1]
                   [] st.res[id] = "RateLimit" -> [st.c EXCEPT !.ratelimit = @ - 1]
                   [] st.res[id] = "LockFailed" -> [st.c EXCEPT !.lockFail = @ - 1]
                   [] st.res[id] = "ValidationFailed" ->
                        [st.c EXCEPT !.validationFail = @ - 1]
                   [] OTHER -> [st.c EXCEPT !.error = @ - 1]
       IN [res |-> [st.res EXCEPT ![id] = "Unknown"],
           c |-> [c1 EXCEPT !.failed = @ - 1]]

ResetOne(st, id) ==
  IF st.res[id] = NoEntry THEN st
  ELSE LET c1 == CASE st.res[id] = "Timeout" -> [st.c EXCEPT !.timeout = @ - 1]
                   [] st.res[id] = "RateLimit" -> [st.c EXCEPT !.ratelimit = @ - 1]
                   [] st.res[id] = "LockFailed" -> [st.c EXCEPT !.lockFail = @ - 1]
                   [] st.res[id] = "ValidationFailed" ->
                        [st.c EXCEPT !.validationFail = @ - 1]
                   [] OTHER -> [st.c EXCEPT !.error = @ - 1]
       IN [res |-> [st.res EXCEPT ![id] = "Unknown"],
           c |-> [c1 EXCEPT !.failed = @ - 1, !.total = @ - 1]]

RECURSIVE ResetLoop(_, _, _)
ResetLoop(st, ids, i) ==
  IF i > Len(ids) THEN st ELSE ResetLoop(ResetOne(st, ids[i]), ids, i + 1)

resetCountersForRetry(ids) ==
  ResetLoop([res |-> skinResults, c |-> cnt], ids, 1)

\* A retry pass with the bound of the first pass.
retryInstNotHalved == maxInstances

\* Instance bound of a retry pass.
retryInst == Max(1, maxInstances \div 2)

\* failed_ids.txt as writeReport leaves it.
writeReport(ids) ==
  [written |-> TRUE,
   failed |-> SelectSeq(ids, LAMBDA id: skinResults[id] # NoEntry
                                        /\ skinResults[id] # "Success"
                                        /\ skinResults[id] # "Skipped")]

\* ------------------------------------------------------------- controller
\* What parseIds returns for a file of n identifiers: they are distinct and in
\* file order; the file lists them in decreasing numeric order, so that file
\* order and numeric order differ.
InputOrders(n) == {[i \in 1..n |-> n + 1 - i]}

\* parseIds on the identifiers the regular expression finds in the file, in
\* file order: every occurrence after the first one is erased.
RECURSIVE KeepFirst(_, _)
KeepFirst(raw, i) ==
  IF i > Len(raw) THEN <<>>
  ELSE (IF \E j \in 1..(i - 1) : raw[j] = raw[i] THEN <<>> ELSE <<raw[i]>>)
         \o KeepFirst(raw, i + 1)

\* parseIds that returns every match.
parseIdsKeepsDuplicates(raw) == raw

parseIds(raw) == KeepFirst(raw, 1)

\* The matches in a file that names n identifiers: each once, or with the
\* first one named a second time at the end.
InputFiles(n) ==
  IF n = 0 THEN {<<>>}
  ELSE UNION {{ids, ids \o <<ids[1]>>} : ids \in InputOrders(n)}

\* Pre-flight that accepts an input file without identifiers.
PreflightOkAcceptsEmpty(steamcmdExists, inputExists, ids) ==
  steamcmdExists /\ inputExists

\* The three pre-flight tests of main.
PreflightOk(steamcmdExists, inputExists, ids) ==
  steamcmdExists /\ inputExists /\ ids # <<>>

\* main up to the parse of ImportedSkins.json, for one state of the working
\* directory.
PreflightWith(steamcmdExists, inputExists, raw) ==
  /\ ctl = "preflight"
  /\ LET ids == parseIds(raw) IN
       IF PreflightOk(steamcmdExists, inputExists, ids)
       THEN /\ allIds' = ids
            /\ ctl' = "input"
            /\ exitCode' = exitCode
       ELSE /\ allIds' = IF steamcmdExists /\ inputExists THEN ids ELSE allIds
            /\ ctl' = "exited"
            /\ exitCode' = 1
  /\ UNCHANGED <<maxInstances, toProcess, pass, instances, workset, chunks,
                 skinResults, cnt, anyRateLimitDetected, shared, inst, wpc,
                 proc, timedOut, report, call>>

Preflight ==
  /\ ctl = "preflight"
  /\ \E steamcmdExists \in BOOLEAN, inputExists \in BOOLEAN, n \in 0..NumIds :
       \E raw \in InputFiles(n) : PreflightWith(steamcmdExists, inputExists, raw)

\* runPass up to the creation of the worker threads: what it assigns.
PassWorkers(ids, bound) == IF ids = <<>> THEN 0 ELSE Min(bound, Len(ids))

Spawned(ids, bound) ==
  [t \in Threads |-> IF t < PassWorkers(ids, bound) THEN "start" ELSE "idle"]

\* The answers to "Max parallel SteamCMD instances" that are told apart.
Answers == {0, 1, 2, MaxInst}

\* The work-list filter that ignores the skip-existing answer.
SkipIgnoresExisting(id, skipExisting, onlyPrevFailed, prevFailed) ==
  onlyPrevFailed /\ id \notin prevFailed

\* The two tests of the work-list loop that record an identifier Skipped.
Skip(id, skipExisting, onlyPrevFailed, prevFailed) ==
  \/ onlyPrevFailed /\ id \notin prevFailed
  \/ skipExisting /\ id \in shared

\* main from the user's answers to the first runPass, for one set of answers
\* and one content of failed_ids.txt (prevFailed).
BuildAndDispatchWith(answer, skipExisting, prevFailed, prevFailedCh) ==
  /\ ctl = "input"
  /\ LET onlyPrevFailed == prevFailed # {} /\ prevFailedCh
         skip(id) == Skip(id, skipExisting, onlyPrevFailed, prevFailed)
         work == SelectSeq(allIds, LAMBDA id: ~skip(id))
         m == IF answer < 1 THEN 1 ELSE answer
     IN /\ maxInstances' = m
        /\ skinResults' = [id \in Ids |->
                             IF id \in Range(allIds) /\ skip(id)
                             THEN "Skipped" ELSE skinResults[id]]
        /\ cnt' = [cnt EXCEPT !.skipped = Len(allIds) - Len(work)]
        /\ toProcess' = work
        /\ IF work = <<>>
           THEN /\ ctl' = "exited"
                /\ exitCode' = 0
                /\ UNCHANGED <<pass, instances, workset, chunks, wpc>>
           ELSE /\ ctl' = "join"
                /\ exitCode' = exitCode
                /\ pass' = 1
                /\ instances' = m
                /\ workset' = work
                /\ chunks' = partition(work, PassWorkers(work, m))
                /\ wpc' = Spawned(work, m)
  /\ UNCHANGED <<allIds, anyRateLimitDetected, shared, inst, proc, timedOut,
                 report, call>>

BuildAndDispatch ==
  /\ ctl = "input"
  /\ \E answer \in Answers, skipExisting \in BOOLEAN,
        prevFailed \in SUBSET Ids, prevFailedCh \in BOOLEAN :
       BuildAndDispatchWith(answer, skipExisting, prevFailed, prevFailedCh)

\* A join loop that goes on when the first worker has returned.
AnyJoined == \E t \in Threads : wpc[t] \in {"aborted", "returned"}

\* The join loop of runPass has ended. "aborted": returned where the script
\* could not be created; "returned": returned at the end of workerInstance.
AllJoined == \A t \in Threads : wpc[t] \in {"idle", "aborted", "returned"}

\* A retry loop that runs once more.
RetryLeftOffByOne(p) == p <= MAX_RETRY_PASSES + 1

\* The retry loop's condition after pass p: retry = p <= MAX_RETRY_PASSES.
RetryLeft(p) == p <= MAX_RETRY_PASSES

\* A back-off of the worker's length.
BackoffNotDoubled == [op |-> "sleep_for", seconds |-> RATELIMIT_BACKOFF_SEC]

\* The call the controller is blocked in while it backs off.
Backoff == [op |-> "sleep_for", seconds |-> RATELIMIT_BACKOFF_SEC * 2]

\* The tail of one iteration of the retry loop: the reset of the counters and
\* the start of the workers of the next pass.
RetryDispatch(failed) ==
  LET r == resetCountersForRetry(failed)
  IN /\ skinResults' = r.res
     /\ cnt' = r.c
     /\ pass' = pass + 1
     /\ instances' = retryInst
     /\ workset' = failed
     /\ chunks' = partition(failed, PassWorkers(failed, retryInst))
     /\ wpc' = Spawned(failed, retryInst)
     /\ timedOut' = [t \in Threads |-> FALSE]

\* One iteration of the retry loop that goes on to another pass: the wipe of
\* the staging directories of all instances and cleanSharedPatchFiles (here
\* and again at the head of runPass); then, with the rate-limit flag set, the
\* controller blocks in the back-off, and without it the pass is dispatched
\* at once. The staging areas hold no item content and are not part of the
\* state.
RetryPass ==
  /\ ctl = "join"
  /\ AllJoined
  /\ RetryLeft(pass)
  /\ collectFailed(toProcess) # <<>>
  /\ IF anyRateLimitDetected
     THEN /\ ctl' = "backoff"
          /\ call' = Backoff
          /\ UNCHANGED <<skinResults, cnt, pass, instances, workset, chunks,
                         wpc, timedOut>>
     ELSE /\ RetryDispatch(collectFailed(toProcess))
          /\ UNCHANGED <<ctl, call>>
  /\ UNCHANGED <<exitCode, allIds, maxInstances, toProcess, shared, inst,
                 proc, report, anyRateLimitDetected>>

\* The back-off is over: the flag is cleared and the pass dispatched.
BackoffEnds ==
  /\ ctl = "backoff"
  /\ anyRateLimitDetected' = FALSE
  /\ ctl' = "join"
  /\ call' = NoCall
  /\ RetryDispatch(collectFailed(toProcess))
  /\ UNCHANGED <<exitCode, allIds, maxInstances, toProcess, shared, inst,
                 proc, report>>

\* The end of the retry loop, the report and the return of main.
Finish ==
  /\ ctl = "join"
  /\ AllJoined
  /\ ~RetryLeft(pass) \/ collectFailed(toProcess) = <<>>
  /\ report' = writeReport(allIds)
  /\ ctl' = "exited"
  /\ exitCode' = 0
  /\ wpc' = [t \in Threads |-> "idle"]
  /\ timedOut' = [t \in Threads |-> FALSE]
  /\ UNCHANGED <<allIds, maxInstances, toProcess, pass, instances, workset,
                 chunks, skinResults, cnt, anyRateLimitDetected, shared, inst,
                 proc, call>>

\* ---------------------------------------------------------------- worker
\* A worker that installs into one directory whatever its index.
instanceDirShared(threadId) == <<"instances/rust_workshop_t", 0>>

\* The paths workerInstance derives from its index (and the pass): the
\* install directory, the script file and the instance log.
instanceDir(threadId) == <<"instances/rust_workshop_t", threadId>>

scriptPath(threadId) == <<"temp_scripts/t", threadId, "/script.txt">>

logPath(p, threadId) == <<"logs/instance_p", p, "_t", threadId, ".log">>

\* chunks[i] of runPass, the argument of worker i (empty for a thread that is
\* not part of the pass).
Chunk(t) == IF t < Len(chunks) THEN chunks[t + 1] ELSE <<>>

\* What an instance log can say about one identifier of the chunk: nothing,
\* or one of the lines the classifier attributes to it.
Fragments(id) ==
  {<<>>,
   <<Line("result", id, {"OK"})>>,
   <<Line("result", id, {"Locking Failed"})>>,
   <<Line("error", id, {"rate"})>>}

RECURSIVE LogsFrom(_, _)
LogsFrom(chunk, i) ==
  IF i > Len(chunk) THEN {<<>>}
  ELSE {f \o rest : f \in Fragments(chunk[i]), rest \in LogsFrom(chunk, i + 1)}

\* The instance logs a worker may find: unreadable, or readable with any
\* combination of per-identifier lines.
WorkerLogs(chunk) == {Unreadable} \cup LogsFrom(chunk, 1)

\* workerInstance up to the start of the external tool.
WorkerStart(t) ==
  /\ wpc[t] = "start"
  /\ \E scriptOpened \in BOOLEAN :
       IF Chunk(t) = <<>> \/ ~scriptOpened
       THEN /\ wpc' = [wpc EXCEPT ![t] = "aborted"]
            /\ proc' = proc
       ELSE /\ wpc' = [wpc EXCEPT ![t] = "wait"]
            /\ proc' = [proc EXCEPT ![t] = "running"]
  /\ UNCHANGED <<ctl, exitCode, allIds, maxInstances, toProcess, pass,
                 instances, workset, chunks, skinResults, cnt,
                 anyRateLimitDetected, shared, inst, timedOut, report, call>>

\* The external tool leaves a downloaded item in its instance tree.
SteamCmdDownload(t, id) ==
  /\ proc[t] = "running"
  /\ id \in Range(Chunk(t))
  /\ id \notin inst[t]
  /\ inst' = [inst EXCEPT ![t] = @ \cup {id}]
  /\ UNCHANGED <<ctl, exitCode, allIds, maxInstances, toProcess, pass,
                 instances, workset, chunks, skinResults, cnt,
                 anyRateLimitDetected, shared, wpc, proc, timedOut, report, call>>

\* The external tool ends by itself (also: it could not be started).
SteamCmdExit(t) ==
  /\ proc[t] = "running"
  /\ proc' = [proc EXCEPT ![t] = "exited"]
  /\ UNCHANGED <<ctl, exitCode, allIds, maxInstances, toProcess, pass,
                 instances, workset, chunks, skinResults, cnt,
                 anyRateLimitDetected, shared, inst, wpc, timedOut, report, call>>

\* A kill that ends only the worker's own external tool.
WorkerTimeoutKillsOwnTool(t) ==
  /\ wpc[t] = "wait"
  /\ proc[t] = "running"
  /\ timedOut' = [timedOut EXCEPT ![t] = TRUE]
  /\ proc' = [proc EXCEPT ![t] = "exited"]
  /\ UNCHANGED <<ctl, exitCode, allIds, maxInstances, toProcess, pass,
                 instances, workset, chunks, skinResults, cnt,
                 anyRateLimitDetected, shared, inst, wpc, report, call>>

\* The polling loop finds the hard timeout expired: taskkill / pkill ends
\* every external-tool process of the host.
WorkerTimeout(t) ==
  /\ wpc[t] = "wait"
  /\ proc[t] = "running"
  /\ timedOut' = [timedOut EXCEPT ![t] = TRUE]
  /\ proc' = [u \in Threads |-> IF proc[u] = "running" THEN "exited" ELSE proc[u]]
  /\ UNCHANGED <<ctl, exitCode, allIds, maxInstances, toProcess, pass,
                 instances, workset, chunks, skinResults, cnt,
                 anyRateLimitDetected, shared, inst, wpc, report, call>>

\* workerInstance from procThread.join() to its return: the log is parsed,
\* the rate-limit flag raised, the chunk reconciled.
WorkerFinishWith(t, log, mv) ==
  /\ wpc[t] = "wait"
  /\ proc[t] = "exited"
  /\ LET p == parseSteamCmdLog(log, Chunk(t))
         mvs == [id \in Range(Chunk(t)) |->
                   IF id \in DOMAIN mv THEN mv[id] ELSE "moved"]
         r == ReconcileLoop([res |-> skinResults, c |-> cnt, sh |-> shared,
                             in |-> inst[t]],
                            Chunk(t), 1, p.perItem, timedOut[t], mvs)
     IN /\ anyRateLimitDetected' = (anyRateLimitDetected \/ p.globalRateLimit)
        /\ skinResults' = r.res
        /\ cnt' = r.c
        /\ shared' = r.sh
        /\ inst' = [inst EXCEPT ![t] = r.in]
  /\ wpc' = [wpc EXCEPT ![t] = "returned"]
  /\ proc' = [proc EXCEPT ![t] = "none"]
  /\ UNCHANGED <<ctl, exitCode, allIds, maxInstances, toProcess, pass,
                 instances, workset, chunks, timedOut, report>>

\* The same for whatever the instance log holds and however the moves end.
WorkerFinish(t) ==
  /\ wpc[t] = "wait"
  /\ proc[t] = "exited"
  /\ \E log \in WorkerLogs(Chunk(t)),
        mv \in [Range(Chunk(t)) \cap (inst[t] \ shared) -> MoveKinds] :
       WorkerFinishWith(t, log, mv)
  /\ call' = call

Next ==
  \/ Preflight
  \/ BuildAndDispatch
  \/ RetryPass
  \/ BackoffEnds
  \/ Finish
  \/ \E t \in Threads : WorkerStart(t)
  \/ \E t \in Threads, id \in Ids : SteamCmdDownload(t, id)
  \/ \E t \in Threads : SteamCmdExit(t)
  \/ \E t \in Threads : WorkerTimeout(t)
  \/ \E t \in Threads : WorkerFinish(t)

Spec == Init /\ [][Next]_vars

\* ------------------------------------------- the workers of the first pass
\* workerInstance from procThread.join() to its return, with the instance
\* log it parsed kept for inspection.
WorkerFinishLogged(t) ==
  /\ wpc[t] = "wait"
  /\ proc[t] = "exited"
  /\ \E log \in WorkerLogs(Chunk(t)),
        mv \in [Range(Chunk(t)) \cap (inst[t] \ shared) -> MoveKinds] :
       /\ WorkerFinishWith(t, log, mv)
       /\ call' = [op |-> "workerInstance", threadId |-> t, log |-> log]

\* The run up to the join of its first pass.
NextFirstPass ==
  \/ Preflight
  \/ BuildAndDispatch
  \/ \E t \in Threads : WorkerStart(t)
  \/ \E t \in Threads, id \in Ids : SteamCmdDownload(t, id)
  \/ \E t \in Threads : SteamCmdExit(t)
  \/ \E t \in Threads : WorkerTimeout(t)
  \/ \E t \in Threads : WorkerFinishLogged(t)

SpecFirstPass == Init /\ [][NextFirstPass]_vars

\* ------------------------------------------------- the reconcile loop alone
\* What an instance log can say about one identifier, with every outcome
\* the classifier can give it.
ReconcileFragments(id) ==
  Fragments(id)
    \cup {<<Line("timeout", id, {})>>,
          <<Line("result", id, {})>>,
          <<Line("result", id, {}), Line("validationNoId", 0, {})>>}

RECURSIVE ReconcileLogsFrom(_, _)
ReconcileLogsFrom(chunk, i) ==
  IF i > Len(chunk) THEN {<<>>}
  ELSE {f \o rest : f \in ReconcileFragments(chunk[i]),
                    rest \in ReconcileLogsFrom(chunk, i + 1)}

\* One run of workerInstance's parse and reconcile on a chosen chunk, log,
\* timedOut and state of the two trees, on an empty OutcomeMap.
CallReconcile ==
  /\ call.op = "none"
  /\ \E n \in 1..NumIds, tmo \in BOOLEAN, sh \in SUBSET Ids, in \in SUBSET Ids :
       \E chunk \in InputOrders(n) :
         \E log \in {Unreadable} \cup ReconcileLogsFrom(chunk, 1),
            mv \in [Range(chunk) \cap (in \ sh) -> MoveKinds] :
           LET p == parseSteamCmdLog(log, chunk)
               mvs == [id \in Range(chunk) |->
                         IF id \in DOMAIN mv THEN mv[id] ELSE "moved"]
               r == ReconcileLoop([res |-> [i \in Ids |-> NoEntry],
                                   c |-> ZeroCounters, sh |-> sh, in |-> in],
                                  chunk, 1, p.perItem, tmo, mvs)
           IN call' = [op |-> "reconcile", chunk |-> chunk,
                       perItem |-> p.perItem, tmo |-> tmo, sh |-> sh,
                       in |-> in, out |-> r]
  /\ UNCHANGED <<ctl, exitCode, allIds, maxInstances, toProcess, pass,
                 instances, workset, chunks, skinResults, cnt,
                 anyRateLimitDetected, shared, inst, wpc, proc, timedOut,
                 report>>

InitReconcile == Init /\ shared = {}

NextReconcile == CallReconcile

SpecReconcile == InitReconcile /\ [][NextReconcile]_vars

\* ------------------------------------------------------------ runPass alone
\* The working sets runPass is applied to: distinct identifiers, in
\* increasing or decreasing order.
WorkingSets(len) == {[i \in 1..len |-> i], [i \in 1..len |-> len + 1 - i]}

\* The head of runPass on a chosen working set and instance bound: the early
\* return on an empty set, n = min(instances, size) and the partition.
CallPartition ==
  /\ call.op = "none"
  /\ \E len \in 0..MaxSetLen, bound \in 1..MaxBound :
       \E ids \in WorkingSets(len) :
         call' = [op |-> "runPass", toDownload |-> ids, instances |-> bound,
                  chunks |-> partition(ids, PassWorkers(ids, bound))]
  /\ UNCHANGED <<ctl, exitCode, allIds, maxInstances, toProcess, pass,
                 instances, workset, chunks, skinResults, cnt,
                 anyRateLimitDetected, shared, inst, wpc, proc, timedOut,
                 report>>

InitPartition == Init /\ shared = {}

NextPartition == CallPartition

SpecPartition == InitPartition /\ [][NextPartition]_vars

\* ------------------------------------------------- the log classifier alone
\* The substrings the classifier searches a captured reason for, and the
\* reasons built from them: a reason that is exactly OK contains none of the
\* others.
ReasonParts ==
  {"OK", "Success", "Locking Failed", "locked", "Timeout", "rate", "Rate"}

Reasons == {r \in SUBSET ReasonParts : "OK" \in r => r = {"OK"}}

\* parseSteamCmdLog on a log of one result line or one ERROR! line, for a
\* chunk that holds the line's identifier or does not.
CallClassify ==
  /\ call.op = "none"
  /\ \E n \in 1..NumIds, id \in Ids, r \in Reasons,
        k \in {"result", "error"} :
       LET chunk == [i \in 1..n |-> i]
           line == Line(k, id, r)
       IN  call' = [op |-> "parseSteamCmdLog", chunk |-> chunk,
                    line |-> line,
                    out |-> parseSteamCmdLog(<<line>>, chunk)]
  /\ UNCHANGED <<ctl, exitCode, allIds, maxInstances, toProcess, pass,
                 instances, workset, chunks, skinResults, cnt,
                 anyRateLimitDetected, shared, inst, wpc, proc, timedOut,
                 report>>

InitClassify == Init /\ shared = {}

NextClassify == CallClassify

SpecClassify == InitClassify /\ [][NextClassify]_vars

\* --------------------------------------------- the classifier line by line
\* The lines of a log, one for each branch of the classifier's if-chain and
\* each outcome a branch can give; "other" is a line no pattern matches.
LogLines ==
  {Line("result", id, r) :
     id \in Ids, r \in {{"OK"}, {"Locking Failed"}, {"Timeout"}, {"rate"}, {}}}
    \cup {Line("error", id, r) : id \in Ids, r \in {{"Timeout"}, {"rate"}, {}}}
    \cup {Line(k, id, {}) :
            k \in {"validationId", "success", "timeout"}, id \in Ids}
    \cup {Line(k, 0, {}) :
            k \in {"validationNoId", "patchLock", "rateLimit", "other"}}

\* The classifier's state before the first line and after each line.
RECURSIVE ParseTrace(_, _, _)
ParseTrace(st, log, i) ==
  IF i > Len(log) THEN <<st>>
  ELSE <<st>> \o ParseTrace(ParseLine(st, log[i]), log, i + 1)

\* parseSteamCmdLog on a log of up to MaxLogLen lines, or on a log that
\* cannot be opened, for the chunk 1..n.
CallClassifyLog ==
  /\ call.op = "none"
  /\ \E n \in 1..NumIds, len \in 0..MaxLogLen :
       \E log \in [1..len -> LogLines] \cup {Unreadable} :
         LET chunk == [i \in 1..n |-> i]
             start == [NewParsedLog EXCEPT
                         !.perItem = [i \in Range(chunk) |-> "Unknown"]]
         IN  call' = [op |-> "parseLog", chunk |-> chunk, log |-> log,
                      trace |-> IF log = Unreadable THEN <<>>
                                ELSE ParseTrace(start, log, 1),
                      out |-> parseSteamCmdLog(log, chunk)]
  /\ UNCHANGED <<ctl, exitCode, allIds, maxInstances, toProcess, pass,
                 instances, workset, chunks, skinResults, cnt,
                 anyRateLimitDetected, shared, inst, wpc, proc, timedOut,
                 report>>

SpecClassifyLog == InitClassify /\ [][CallClassifyLog]_vars

\* ============================================================ manifest patcher
\* The appworkshop manifest patcher (src/unnamed/part_000) is a program of its
\* own.  A string is a sequence of characters; alphabetic words are kept as
\* one element, digits, quotes, braces and white space are single characters.
TAB == "<TAB>"

CR == "<CR>"

LF == "<LF>"

QUOTE == "<QUOTE>"

Whitespace == {" ", TAB, CR, LF}

Digit == {"0", "1", "2", "3", "4", "5", "6", "7", "8", "9"}

SetMin(S) == CHOOSE x \in S : \A y \in S : x <= y

SetMax(S) == CHOOSE x \in S : \A y \in S : x >= y

trimStr(s) ==
  LET keep == {i \in 1..Len(s) : s[i] \notin Whitespace}
  IN  IF keep = {} THEN <<>> ELSE SubSeq(s, SetMin(keep), SetMax(keep))

firstQuotedToken(line) ==
  LET q == {i \in 1..Len(line) : line[i] = QUOTE}
  IN  IF q = {} THEN <<>>
      ELSE LET q1 == SetMin(q)
               rest == {i \in q : i > q1}
           IN  IF rest = {} THEN <<>>
               ELSE SubSeq(line, q1 + 1, SetMin(rest) - 1)

isAllDigits(s) == s # <<>> /\ \A i \in 1..Len(s) : s[i] \in Digit

\* std::getline over a text, with the trailing carriage return of every line
\* removed: the loop that reads the manifest and the splitLines lambda.
StripCR(ln) ==
  IF ln # <<>> /\ ln[Len(ln)] = CR THEN SubSeq(ln, 1, Len(ln) - 1) ELSE ln

\* The loops over lines are written as a fold that splits its range in two,
\* which keeps the evaluation shallow; the lines are visited first to last,
\* and the state after the first half is the value the second half starts
\* from (CHOOSE from a singleton).
RECURSIVE GetLines(_)
GetLines(text) ==
  LET n == Len(text)
      inner == {p \in 1..(n - 1) : text[p] = LF}
  IN  IF n = 0 THEN <<>>
      ELSE IF inner = {}
        THEN <<StripCR(IF text[n] = LF THEN SubSeq(text, 1, n - 1) ELSE text)>>
      ELSE LET p == CHOOSE x \in inner :
                      Cardinality({q \in inner : q < x})
                        = Cardinality(inner) \div 2
           IN  GetLines(SubSeq(text, 1, p)) \o GetLines(SubSeq(text, p + 1, n))

splitLines(block) == GetLines(block)

ReadAcf(file) == GetLines(file)

\* out << ln << eol for the lines lo..hi; the patcher writes with eol = "\n".
RECURSIVE WriteFrom(_, _, _, _)
WriteFrom(lines, lo, hi, eol) ==
  IF lo > hi THEN <<>>
  ELSE IF lo = hi THEN lines[lo] \o eol
  ELSE WriteFrom(lines, lo, (lo + hi) \div 2, eol)
         \o WriteFrom(lines, (lo + hi) \div 2 + 1, hi, eol)

WriteAcf(lines) == WriteFrom(lines, 1, Len(lines), <<LF>>)

\* ---- parseAcf.  Line indices count from 0 as in the source, -1 is "not
\* found".  The record also carries the two locals of the function, cur and
\* depth, with their values when the loop ends.
NewAcfInfo ==
  [installedIds |-> {}, detailsIds |-> {},
   installedCloseLineIdx |-> -1, detailsCloseLineIdx |-> -1,
   cur |-> "None", depth |-> 0]

SectionOf(key) ==
  IF key = <<"WorkshopItemsInstalled">> THEN "Installed"
  ELSE IF key = <<"WorkshopItemDetails">> THEN "Details"
  ELSE "Other"

ParseAcfLine(st, i, line) ==
  LET t == trimStr(line)
  IN  IF t = <<"{">> THEN [st EXCEPT !.depth = @ + 1]
      ELSE IF t = <<"}">> THEN
        LET closed ==
              IF st.depth = 2
                THEN [st EXCEPT
                        !.installedCloseLineIdx =
                            IF st.cur = "Installed" THEN i ELSE @,
                        !.detailsCloseLineIdx =
                            IF st.cur = "Details" THEN i ELSE @,
                        !.cur = "None"]
                ELSE st
        IN  [closed EXCEPT !.depth = IF @ > 0 THEN @ - 1 ELSE @]
      ELSE IF t = <<>> \/ t[1] # QUOTE THEN st
      ELSE
        LET key == firstQuotedToken(t)
        IN  IF key = <<>> THEN st
            ELSE IF st.depth = 1 THEN [st EXCEPT !.cur = SectionOf(key)]
            ELSE IF st.depth = 2 /\ isAllDigits(key) THEN
              [st EXCEPT
                 !.installedIds =
                     IF st.cur = "Installed" THEN @ \cup {key} ELSE @,
                 !.detailsIds =
                     IF st.cur = "Details" THEN @ \cup {key} ELSE @]
            ELSE st

\* the loop of parseAcf over the line indices lo..hi
RECURSIVE ParseAcfFrom(_, _, _, _)
ParseAcfFrom(st, lines, lo, hi) ==
  IF lo > hi THEN st
  ELSE IF lo = hi THEN ParseAcfLine(st, lo, lines[lo + 1])
  ELSE LET mid == (lo + hi) \div 2
       IN  CHOOSE r \in {ParseAcfFrom(half, lines, mid + 1, hi) :
                           half \in {ParseAcfFrom(st, lines, lo, mid)}} : TRUE

parseAcf(lines) == ParseAcfFrom(NewAcfInfo, lines, 0, Len(lines) - 1)

\* ---- entry builders: the text of one entry, line feeds included.
KeyValue(key, value) ==
  <<TAB, TAB, TAB, QUOTE, key, QUOTE, TAB, TAB, QUOTE>> \o value
    \o <<QUOTE, LF>>

EntryHead(s) ==
  <<TAB, TAB, QUOTE>> \o s.id \o <<QUOTE, LF>> \o <<TAB, TAB, "{", LF>>

EntryTail == <<TAB, TAB, "}", LF>>

buildInstalledEntry(s) ==
  EntryHead(s)
    \o KeyValue("size", s.size)
    \o KeyValue("timeupdated", s.timeupdated)
    \o KeyValue("manifest", <<"0">>)
    \o EntryTail

buildDetailsEntry(s) ==
  EntryHead(s)
    \o KeyValue("manifest", <<"0">>)
    \o KeyValue("timeupdated", s.timeupdated)
    \o KeyValue("timetouched", s.timetouched)
    \o KeyValue("latest_timeupdated", s.timeupdated)
    \o KeyValue("latest_manifest", <<"0">>)
    \o EntryTail

\* ---- the content folder: one record per directory_entry, carrying what the
\* patcher reads of it (folderHasFiles, folderSize, the publish date).
CharRank(c) ==
  IF c \in Digit
    THEN CHOOSE n \in 0..9 : <<"0", "1", "2", "3", "4", "5", "6", "7", "8", "9">>[n + 1] = c
    ELSE 10

RECURSIVE StrLess(_, _)
StrLess(a, b) ==
  IF b = <<>> THEN FALSE
  ELSE IF a = <<>> THEN TRUE
  ELSE IF a[1] = b[1] THEN StrLess(Tail(a), Tail(b))
  ELSE CharRank(a[1]) < CharRank(b[1])

RECURSIVE SortEntries(_)
SortEntries(S) ==
  IF S = {} THEN <<>>
  ELSE LET m == CHOOSE e \in S : \A f \in S \ {e} : StrLess(e.name, f.name)
       IN  <<m>> \o SortEntries(S \ {m})

Now == <<"9">>

readSkinInfo(e) ==
  [id |-> e.name, size |-> e.size, timeupdated |-> e.mtime,
   timetouched |-> Now]

Present(acf, name) ==
  name \in acf.installedIds /\ name \in acf.detailsIds

RECURSIVE CollectFrom(_, _, _)
CollectFrom(acf, entries, i) ==
  IF i > Len(entries) THEN <<>>
  ELSE LET e == entries[i]
       IN  IF ~isAllDigits(e.name) \/ ~e.hasFiles \/ Present(acf, e.name)
             THEN CollectFrom(acf, entries, i + 1)
             ELSE <<readSkinInfo(e)>> \o CollectFrom(acf, entries, i + 1)

Collect(acf, contentDir) ==
  CollectFrom(acf, SortEntries({e \in contentDir : e.isDir}), 1)

\* ---- build the insertion strings and splice them into lines[].
RECURSIVE InstalledInsertFrom(_, _, _)
InstalledInsertFrom(acf, toAdd, i) ==
  IF i > Len(toAdd) THEN <<>>
  ELSE (IF toAdd[i].id \notin acf.installedIds
          THEN buildInstalledEntry(toAdd[i]) ELSE <<>>)
         \o InstalledInsertFrom(acf, toAdd, i + 1)

RECURSIVE DetailsInsertFrom(_, _, _)
DetailsInsertFrom(acf, toAdd, i) ==
  IF i > Len(toAdd) THEN <<>>
  ELSE (IF toAdd[i].id \notin acf.detailsIds
          THEN buildDetailsEntry(toAdd[i]) ELSE <<>>)
         \o DetailsInsertFrom(acf, toAdd, i + 1)

installedInsert(acf, toAdd) == InstalledInsertFrom(acf, toAdd, 1)

detailsInsert(acf, toAdd) == DetailsInsertFrom(acf, toAdd, 1)

\* lines.insert(lines.begin() + idx, new.begin(), new.end())
InsertAt(lines, idx, new) ==
  SubSeq(lines, 1, idx) \o new \o SubSeq(lines, idx + 1, Len(lines))

\* The index at which the details buffer goes in once the installed buffer
\* was inserted first.
AdjustedDetIdx(detIdx, instIdx, iLines) == detIdx + Len(iLines)

Splice(lines, acf, iText, dText) ==
  LET instIdx == acf.installedCloseLineIdx
      detIdx == acf.detailsCloseLineIdx
      iLines == splitLines(iText)
      dLines == splitLines(dText)
  IN  IF detIdx > instIdx
        THEN LET withD == IF dText # <<>>
                            THEN InsertAt(lines, detIdx, dLines) ELSE lines
             IN  IF iText # <<>>
                   THEN InsertAt(withD, instIdx, iLines) ELSE withD
        ELSE LET withI == IF iText # <<>>
                            THEN InsertAt(lines, instIdx, iLines) ELSE lines
                 det2 == IF iText # <<>>
                           THEN AdjustedDetIdx(detIdx, instIdx, iLines)
                           ELSE detIdx
             IN  IF dText # <<>>
                   THEN InsertAt(withI, det2, dLines) ELSE withI

SectionsLocatedEither(acf) ==
  ~(acf.installedCloseLineIdx < 0 /\ acf.detailsCloseLineIdx < 0)

SectionsLocated(acf) ==
  ~(acf.installedCloseLineIdx < 0 \/ acf.detailsCloseLineIdx < 0)

\* "Backup failed. Continue without backup?"
BackupProceedsAlways(ok, cont) == TRUE

BackupProceeds(ok, cont) == ok \/ cont

\* ---- the manifests and content folders the patcher is run on.
DigitChar == <<"1", "2", "3", "4", "5", "6", "7", "8", "9">>

SkinId(n) == <<DigitChar[n], DigitChar[n], DigitChar[n]>>

SkinIds == {SkinId(n) : n \in 1..MaxSkins}

\* An entry the external tool wrote earlier.
OldSkin(id) ==
  [id |-> id, size |-> <<"5">>, timeupdated |-> <<"6">>,
   timetouched |-> <<"6">>]

RECURSIVE ExistingEntries(_, _, _)
ExistingEntries(sec, ids, n) ==
  IF n > MaxSkins THEN <<>>
  ELSE (IF SkinId(n) \notin ids THEN <<>>
        ELSE IF sec = "Installed" THEN buildInstalledEntry(OldSkin(SkinId(n)))
        ELSE buildDetailsEntry(OldSkin(SkinId(n))))
         \o ExistingEntries(sec, ids, n + 1)

SectionHead(sec) ==
  <<TAB, QUOTE,
    IF sec = "Installed" THEN "WorkshopItemsInstalled"
                         ELSE "WorkshopItemDetails",
    QUOTE, LF, TAB, "{", LF>>

SectionText(sec, ids) ==
  SectionHead(sec) \o ExistingEntries(sec, ids, 1) \o <<TAB, "}", LF>>

ManifestHead ==
  <<QUOTE, "AppWorkshop", QUOTE, LF, "{", LF,
    TAB, QUOTE, "appid", QUOTE, TAB, TAB,
    QUOTE, "2", "5", "2", "4", "9", "0", QUOTE, LF>>

ManifestText(first, instIds, detIds) ==
  ManifestHead
    \o (IF first = "Installed"
          THEN SectionText("Installed", instIds)
                 \o SectionText("Details", detIds)
          ELSE SectionText("Details", detIds)
                 \o SectionText("Installed", instIds))
    \o <<"}", LF>>

\* The same text with CR+LF line ends.
WithCR(text) ==
  WriteFrom(GetLines(text), 1, Len(GetLines(text)), <<CR, LF>>)

\* Manifests in which a section closing is missing: one section only, none,
\* or a file cut off inside its second section.
PartialManifests ==
  {ManifestHead \o SectionText("Installed", SkinIds) \o <<"}", LF>>,
   ManifestHead \o SectionText("Details", {}) \o <<"}", LF>>,
   ManifestHead \o <<"}", LF>>,
   ManifestHead \o SectionText("Installed", {}) \o SectionHead("Details")}

FullManifests ==
  {ManifestText(first, instIds, detIds) :
     first \in {"Installed", "Details"},
     instIds \in SUBSET SkinIds, detIds \in SUBSET SkinIds}

Manifests ==
  LET lf == FullManifests \cup PartialManifests
  IN  lf \cup {WithCR(m) : m \in lf}

SkinDir(id, hasFiles) ==
  [name |-> id, isDir |-> TRUE, hasFiles |-> hasFiles,
   size |-> IF hasFiles THEN <<"4">> ELSE <<"0">>, mtime |-> <<"7">>]

\* Always there: a directory that is no identifier, an identifier's
\* directory without files and a regular file whose name is all digits.
OtherEntries ==
  {[name |-> <<"temp">>, isDir |-> TRUE, hasFiles |-> TRUE,
    size |-> <<"4">>, mtime |-> <<"7">>],
   SkinDir(<<"7", "7", "7">>, FALSE),
   [name |-> <<"8", "8", "8">>, isDir |-> FALSE, hasFiles |-> FALSE,
    size |-> <<"4">>, mtime |-> <<"7">>]}

ContentDirs ==
  {{SkinDir(id, TRUE) : id \in onDisk} \cup OtherEntries :
   onDisk \in SUBSET SkinIds}

\* ---- main of the patcher.  The record in call is the patcher's state:
\* pc its position, acfFile the live manifest, backups the backup copies on
\* disk, lines/acf/toAdd the locals of main, exit its return value; orig,
\* opened, backedUp, continued and patched record what the execution did.
NewPatcher(file, dir, run, backups, patched) ==
  [op |-> "patcher", pc |-> "load", run |-> run,
   acfFile |-> file, contentDir |-> dir, backups |-> backups,
   lines |-> <<>>, acf |-> NewAcfInfo, toAdd |-> <<>>, exit |-> -1,
   orig |-> file, opened |-> FALSE, backedUp |-> FALSE,
   continued |-> FALSE, patched |-> patched]

DownloaderIdle ==
  UNCHANGED <<ctl, exitCode, allIds, maxInstances, toProcess, pass,
              instances, workset, chunks, skinResults, cnt,
              anyRateLimitDetected, shared, inst, wpc, proc, timedOut,
              report>>

PatcherStart ==
  /\ call.op = "none"
  /\ \E file \in Manifests, dir \in ContentDirs :
       call' = NewPatcher(file, dir, 1, {}, FALSE)
  /\ DownloaderIdle

\* Path checks, read, parse, section check, scan and report: up to the
\* "Proceed with patching" prompt.
PatcherLoad ==
  /\ call.op = "patcher" /\ call.pc = "load"
  /\ \E pathsOk \in BOOLEAN, scanOk \in BOOLEAN :
       LET lines == ReadAcf(call.acfFile)
           acf == parseAcf(lines)
           toAdd == Collect(acf, call.contentDir)
       IN  call' =
             IF ~pathsOk THEN [call EXCEPT !.pc = "done", !.exit = 1]
             ELSE IF ~SectionsLocated(acf)
               THEN [call EXCEPT !.pc = "done", !.exit = 1,
                                 !.lines = lines, !.acf = acf]
             ELSE IF ~scanOk
               THEN [call EXCEPT !.pc = "done", !.exit = 1,
                                 !.lines = lines, !.acf = acf]
             ELSE IF toAdd = <<>>
               THEN [call EXCEPT !.pc = "done", !.exit = 0,
                                 !.lines = lines, !.acf = acf]
             ELSE [call EXCEPT !.pc = "confirm", !.lines = lines,
                               !.acf = acf, !.toAdd = toAdd]
  /\ DownloaderIdle

PatcherConfirm ==
  /\ call.op = "patcher" /\ call.pc = "confirm"
  /\ \E yes \in BOOLEAN :
       call' = IF yes THEN [call EXCEPT !.pc = "backup"]
               ELSE [call EXCEPT !.pc = "done", !.exit = 0]
  /\ DownloaderIdle

\* backupAcf and the prompt after its failure.
PatcherBackup ==
  /\ call.op = "patcher" /\ call.pc = "backup"
  /\ \E ok \in BOOLEAN, cont \in BOOLEAN :
       call' =
         IF ~BackupProceeds(ok, cont)
           THEN [call EXCEPT !.pc = "done", !.exit = 1]
           ELSE [call EXCEPT
                   !.pc = "write",
                   !.backedUp = ok,
                   !.continued = ~ok /\ cont,
                   !.backups = IF ok THEN @ \cup {call.acfFile} ELSE @]
  /\ DownloaderIdle

\* Build the insertion strings, splice, open the manifest and write.
PatcherWrite ==
  /\ call.op = "patcher" /\ call.pc = "write"
  /\ \E canOpen \in BOOLEAN :
       LET spliced == Splice(call.lines, call.acf,
                             installedInsert(call.acf, call.toAdd),
                             detailsInsert(call.acf, call.toAdd))
       IN  call' =
             IF ~canOpen
               THEN [call EXCEPT !.pc = "done", !.exit = 1,
                                 !.lines = spliced]
               ELSE [call EXCEPT !.pc = "done", !.exit = 0,
                                 !.lines = spliced, !.opened = TRUE,
                                 !.acfFile = WriteAcf(spliced)]
  /\ DownloaderIdle

\* The patcher is started again on the manifest it wrote, the content
\* folder as it was.
PatcherRerun ==
  /\ call.op = "patcher" /\ call.pc = "done"
  /\ call.opened /\ call.run < MaxRuns
  /\ call' = NewPatcher(call.acfFile, call.contentDir, call.run + 1,
                        call.backups, TRUE)
  /\ DownloaderIdle

InitPatcher == Init /\ shared = {}

NextPatcher ==
  \/ PatcherStart
  \/ PatcherLoad
  \/ PatcherConfirm
  \/ PatcherBackup
  \/ PatcherWrite
  \/ PatcherRerun

SpecPatcher == InitPatcher /\ [][NextPatcher]_vars

\* ------------------------------------------- the worker's wait for the tool
\* workerInstance from the start of procThread to procThread.join(), for a
\* chunk of n identifiers.  The record in call is the worker's state: pc is
\* its position ("loop": the test of procDone, "clock": the test of the
\* elapsed time, "join": procThread.join(), "parse": past the join), elapsed
\* the whole seconds since tStart, tool the external process, exitedAt the
\* second in which the process ended by itself (-1: it has not), kills the
\* number of kill commands issued.
instanceTimeout(n) == BASE_TIMEOUT_SEC * n

WaitStart ==
  /\ call.op = "none"
  /\ \E n \in 1..NumIds :
       call' = [op |-> "workerInstance", n |-> n, pc |-> "loop", elapsed |-> 0,
                tool |-> "running", exitedAt |-> -1, procDone |-> FALSE,
                timedOut |-> FALSE, kills |-> 0]
  /\ DownloaderIdle

\* A second passes (also during sleep_for(STATUS_POLL_MS)).
ClockTick ==
  /\ call.op = "workerInstance"
  /\ call.pc # "parse"
  /\ call.elapsed < instanceTimeout(call.n) + 2
  /\ call' = [call EXCEPT !.elapsed = @ + 1]
  /\ DownloaderIdle

\* The external tool ends by itself, or could not be started.
ToolExits ==
  /\ call.op = "workerInstance"
  /\ call.pc # "parse"
  /\ call.tool = "running"
  /\ call' = [call EXCEPT !.tool = "exited", !.exitedAt = call.elapsed]
  /\ DownloaderIdle

\* std::system has returned in procThread: procDone.store(true).
ProcThreadDone ==
  /\ call.op = "workerInstance"
  /\ call.pc # "parse"
  /\ call.tool # "running"
  /\ ~call.procDone
  /\ call' = [call EXCEPT !.procDone = TRUE]
  /\ DownloaderIdle

\* while (!procDone.load(...))
LoopTest ==
  /\ call.op = "workerInstance"
  /\ call.pc = "loop"
  /\ call' = [call EXCEPT !.pc = IF call.procDone THEN "join" ELSE "clock"]
  /\ DownloaderIdle

\* if (elapsed > instanceTimeout) { timedOut = true; kill; break; } and the
\* sleep otherwise.  The kill command ends the tool or does not; its result
\* is not looked at.
ClockTest ==
  /\ call.op = "workerInstance"
  /\ call.pc = "clock"
  /\ IF call.elapsed > instanceTimeout(call.n)
     THEN \E ended \in BOOLEAN :
            call' = [call EXCEPT
                       !.timedOut = TRUE,
                       !.kills = @ + 1,
                       !.tool = IF ended /\ @ = "running" THEN "killed" ELSE @,
                       !.pc = "join"]
     ELSE call' = [call EXCEPT !.pc = "loop"]
  /\ DownloaderIdle

\* procThread.join() returns: the thread has run to its end.
JoinReturns ==
  /\ call.op = "workerInstance"
  /\ call.pc = "join"
  /\ call.procDone
  /\ call' = [call EXCEPT !.pc = "parse"]
  /\ DownloaderIdle

SpecWait ==
  InitClassify
    /\ [][WaitStart \/ ClockTick \/ ToolExits \/ ProcThreadDone \/ LoopTest
            \/ ClockTest \/ JoinReturns]_vars

\* ============================================================== input parser
\* The text of the input file is a sequence of characters, as in the patcher.
\* std::getline: the text up to each line feed; nothing else is removed.
RECURSIVE FileLines(_)
FileLines(text) ==
  LET ends == {p \in 1..Len(text) : text[p] = LF}
  IN  IF text = <<>> THEN <<>>
      ELSE IF ends = {} THEN <<text>>
      ELSE <<SubSeq(text, 1, SetMin(ends) - 1)>>
             \o FileLines(SubSeq(text, SetMin(ends) + 1, Len(text)))

\* idRe matches at position i with a capture of n characters: a double quote,
\* n digits with MIN_ID_DIGITS <= n <= MAX_ID_DIGITS, a double quote.
IdReMatches(s, i, n) ==
  /\ i >= 1
  /\ i + n + 1 <= Len(s)
  /\ s[i] = QUOTE
  /\ \A k \in (i + 1)..(i + n) : s[k] \in Digit
  /\ s[i + n + 1] = QUOTE

IdReLengths == MIN_ID_DIGITS..MAX_ID_DIGITS

IdReStarts(s) == {i \in 1..Len(s) : \E n \in IdReLengths : IdReMatches(s, i, n)}

\* while (regex_search(s, m, idRe)) { push_back(m[1]); s = m.suffix(); }
\* regex_search returns the leftmost match; the suffix starts after its
\* closing quote.
RECURSIVE SearchIds(_)
SearchIds(s) ==
  IF IdReStarts(s) = {} THEN <<>>
  ELSE LET i == SetMin(IdReStarts(s))
           n == CHOOSE k \in IdReLengths : IdReMatches(s, i, k)
       IN  <<SubSeq(s, i + 1, i + n)>>
             \o SearchIds(SubSeq(s, i + n + 2, Len(s)))

\* the loop over the lines of the file, first line first
RECURSIVE SearchLines(_, _)
SearchLines(lines, k) ==
  IF k > Len(lines) THEN <<>>
  ELSE SearchIds(lines[k]) \o SearchLines(lines, k + 1)

\* parseIds on the text of the input file
parseIdsOfText(text) == parseIds(SearchLines(FileLines(text), 1))

\* ---- the input files parseIds is run on: up to MaxPieces pieces, each a
\* quoted or bare run of digits, a run followed by a quote, a quote, a line
\* feed or another character.
DigitRun(d, n) == [k \in 1..n |-> d]

Quoted(run) == <<QUOTE>> \o run \o <<QUOTE>>

TextPieces ==
  {Quoted(DigitRun("1", MIN_ID_DIGITS)), Quoted(DigitRun("2", MAX_ID_DIGITS)),
   Quoted(DigitRun("3", MIN_ID_DIGITS - 1)),
   Quoted(DigitRun("4", MAX_ID_DIGITS + 1)),
   DigitRun("1", MIN_ID_DIGITS) \o <<QUOTE>>,
   DigitRun("2", MAX_ID_DIGITS) \o <<QUOTE>>,
   DigitRun("1", MIN_ID_DIGITS),
   <<QUOTE>>, <<",">>, <<LF>>}

RECURSIVE Concat(_, _)
Concat(pieces, k) ==
  IF k > Len(pieces) THEN <<>> ELSE pieces[k] \o Concat(pieces, k + 1)

InputTexts ==
  {Concat(f, 1) : f \in UNION {[1..n -> TextPieces] : n \in 0..MaxPieces}}

CallParseIds ==
  /\ call.op = "none"
  /\ \E text \in InputTexts :
       call' = [op |-> "parseIds", text |-> text, out |-> parseIdsOfText(text)]
  /\ DownloaderIdle

InitParseIds == Init /\ shared = {}

NextParseIds == CallParseIds

SpecParseIds == InitParseIds /\ [][NextParseIds]_vars

\* ============================================================== cleanup tool
\* The cleanup tool works on the trees the downloader leaves behind: inst[t]
\* holds the identifiers whose skin directory in instance directory t
\* hasFiles, shared those whose shared content directory hasFiles.  The call
\* record keeps the instances found (0..n-1, sorted), the index of the next
\* one, the instances holding a regular file the tool does not handle
\* (other), the trees the tool started from (inst0), the identifiers whose
\* shared directory it wrote to, the instance directories it deleted, those
\* that held a regular file when deleted, and its totals.

\* What fs::remove_all of a duplicate can do: remove it, or throw (ignored).
RemoveKinds == {"removed", "removeFailed"}

\* A duplicate test that looks at the source only.
MoveSkinIgnoresShared(dstHas, mv, rm) ==
  IF mv = "moved"
  THEN [src |-> FALSE, dst |-> TRUE, wrote |-> TRUE, kind |-> "moved"]
  ELSE [src |-> TRUE, dst |-> dstHas \/ mv = "copyFailedPartial",
        wrote |-> (mv = "copyFailedPartial"), kind |-> "failed"]

\* One entry of the loop of moveSkinsFromInstance, for a skin directory that
\* hasFiles: what is left at the source, what the destination holds, whether
\* the destination was written to, and the counter that is incremented.  The
\* directory arrives by rename or by a complete copy fallback ("moved"), or
\* the fallback throws with some files at the destination (also: the copy is
\* complete and removing the source throws), or before any file is copied.
MoveSkin(dstHas, mv, rm) ==
  IF dstHas
  THEN [src |-> (rm = "removeFailed"), dst |-> TRUE, wrote |-> FALSE,
        kind |-> "already"]
  ELSE IF mv = "moved"
  THEN [src |-> FALSE, dst |-> TRUE, wrote |-> TRUE, kind |-> "moved"]
  ELSE [src |-> TRUE, dst |-> (mv = "copyFailedPartial"),
        wrote |-> (mv = "copyFailedPartial"), kind |-> "failed"]

\* moveSkinsFromInstance on the skins `in` of one instance directory.
moveSkinsFromInstance(in, sh, mvs, rms) ==
  LET one(id) == MoveSkin(id \in sh,
                          IF id \in DOMAIN mvs THEN mvs[id] ELSE "moved",
                          IF id \in DOMAIN rms THEN rms[id] ELSE "removed")
      count(k) == Cardinality({id \in in : one(id).kind = k})
  IN [in |-> {id \in in : one(id).src},
      sh |-> sh \cup {id \in in : one(id).dst},
      wrote |-> {id \in in : one(id).wrote},
      r |-> [moved |-> count("moved"), already |-> count("already"),
             failed |-> count("failed")]]

\* An emptiness test that does not descend into the skin directories.
dirIsEmptyNotRecursive(in, hasOther) == ~hasOther

\* dirIsEmpty: no regular file at any depth.
dirIsEmpty(in, hasOther) == in = {} /\ ~hasOther

\* tryRemoveDir; removeOk: fs::remove_all does not throw.
tryRemoveDir(in, hasOther, removeOk) == dirIsEmpty(in, hasOther) /\ removeOk

InitCleanup ==
  /\ ctl = "preflight"
  /\ exitCode = -1
  /\ allIds = <<>>
  /\ maxInstances = 0
  /\ toProcess = <<>>
  /\ pass = 0
  /\ instances = 0
  /\ workset = <<>>
  /\ chunks = <<>>
  /\ skinResults = [i \in Ids |-> NoEntry]
  /\ cnt = ZeroCounters
  /\ anyRateLimitDetected = FALSE
  /\ shared \in SUBSET Ids
  /\ wpc = [t \in Threads |-> "idle"]
  /\ proc = [t \in Threads |-> "none"]
  /\ timedOut = [t \in Threads |-> FALSE]
  /\ report = NotWritten
  /\ \E n \in 0..MaxDirs :
       \E f \in [0..(n - 1) -> SUBSET Ids], o \in SUBSET (0..(n - 1)) :
         /\ inst = [t \in Threads |-> IF t < n THEN f[t] ELSE {}]
         /\ call = [op |-> "cleanup", pc |-> "loop", n |-> n, i |-> 0,
                    other |-> o,
                    inst0 |-> [t \in Threads |-> IF t < n THEN f[t] ELSE {}],
                    written |-> {}, removed |-> {}, removedWithFiles |-> {},
                    totalMoved |-> 0, totalAlready |-> 0, totalFailed |-> 0]

\* One iteration of main's loop over the instance directories: the skins
\* are moved, then the directory is removed if it is empty.
ProcessInstance ==
  /\ call.op = "cleanup"
  /\ call.pc = "loop"
  /\ call.i < call.n
  /\ \E mvs \in [inst[call.i] \ shared -> MoveKinds],
        rms \in [inst[call.i] \cap shared -> RemoveKinds],
        removeOk \in BOOLEAN :
       LET t == call.i
           m == moveSkinsFromInstance(inst[t], shared, mvs, rms)
           del == tryRemoveDir(m.in, t \in call.other, removeOk)
       IN /\ inst' = [inst EXCEPT ![t] = IF del THEN {} ELSE m.in]
          /\ shared' = m.sh
          /\ call' = [call EXCEPT
                        !.i = @ + 1,
                        !.written = @ \cup m.wrote,
                        !.removed = IF del THEN @ \cup {t} ELSE @,
                        !.removedWithFiles =
                          IF del /\ (m.in # {} \/ t \in call.other)
                          THEN @ \cup {t} ELSE @,
                        !.totalMoved = @ + m.r.moved,
                        !.totalAlready = @ + m.r.already,
                        !.totalFailed = @ + m.r.failed]
  /\ UNCHANGED <<ctl, exitCode, allIds, maxInstances, toProcess, pass,
                 instances, workset, chunks, skinResults, cnt,
                 anyRateLimitDetected, wpc, proc, timedOut, report>>

\* main after the loop: the instances root goes when it holds no regular
\* file at any depth, and the exit code tells whether a move failed.
CleanupFinish ==
  /\ call.op = "cleanup"
  /\ call.pc = "loop"
  /\ call.i = call.n
  /\ \E removeOk \in BOOLEAN :
       LET dirs == 0..(call.n - 1)
           left == dirs \ call.removed
           del == /\ call.n > 0
                  /\ \A t \in left : dirIsEmpty(inst[t], t \in call.other)
                  /\ removeOk
       IN /\ inst' = [t \in Threads |-> IF del THEN {} ELSE inst[t]]
          /\ call' = [call EXCEPT
                        !.pc = "done",
                        !.removed = IF del THEN dirs ELSE @,
                        !.removedWithFiles =
                          IF del
                          THEN @ \cup {t \in left : inst[t] # {} \/ t \in call.other}
                          ELSE @]
  /\ exitCode' = IF call.totalFailed > 0 THEN 1 ELSE 0
  /\ UNCHANGED <<ctl, allIds, maxInstances, toProcess, pass, instances,
                 workset, chunks, skinResults, cnt, anyRateLimitDetected,
                 shared, wpc, proc, timedOut, report>>

SpecCleanup == InitCleanup /\ [][ProcessInstance \/ CleanupFinish]_vars

\* ================================================================ claims
Returned(t) == wpc[t] \in {"aborted", "returned"}

FailureKinds == {"Timeout", "RateLimit", "LockFailed", "ValidationFailed", "Error"}

\* C1: whenever workerInstance has returned, every identifier of its chunk
\* has an outcome recorded by this invocation (an entry that is not the
\* Unknown left by the reset before the pass).
C1_WorkerRecordsChunk ==
  \A t \in Threads :
    Returned(t) =>
      \A id \in Range(Chunk(t)) : skinResults[id] \notin {NoEntry, "Unknown"}

\* C2: at the end of a run that passed the pre-flight checks every parsed
\* identifier has an entry, so that Success + Skipped + retriable failures
\* add up to the size of the input set.
C2_EveryIdHasEntry ==
  (ctl = "exited" /\ exitCode = 0) =>
    /\ \A id \in Range(allIds) : skinResults[id] # NoEntry
    /\ Cardinality({id \in Range(allIds) : skinResults[id] = "Success"})
         + Cardinality({id \in Range(allIds) : skinResults[id] = "Skipped"})
         + Cardinality({id \in Range(allIds) :
                          skinResults[id] \in FailureKinds \cup {"Unknown"}})
       = Len(allIds)

\* C3: once the OutcomeMap holds Success for an identifier no step replaces
\* it, and no later pass has the identifier in its working set.
C3_SuccessMonotonic ==
  [][\A id \in Ids :
       skinResults[id] = "Success" =>
         /\ skinResults'[id] = "Success"
         /\ (pass' # pass => id \notin Range(workset'))]_vars

C3_Witness ==
  /\ pass >= 2
  /\ \E t \in Threads : wpc[t] = "returned"
  /\ \E id \in Range(toProcess) \ Range(workset) : skinResults[id] = "Success"

\* C4: in every reachable state an identifier recorded Success has files in
\* its shared content directory.
C4_SuccessHasFiles ==
  \A id \in Ids : skinResults[id] = "Success" => id \in shared

C4_Witness ==
  \E t \in Threads :
    /\ wpc[t] = "returned"
    /\ \E id \in Range(Chunk(t)) : skinResults[id] = "Success" /\ id \in shared

C6_ReconcileAuthoritative ==
  call.op = "reconcile" =>
    \A id \in Range(call.chunk) :
      /\ id \in call.out.sh => call.out.res[id] = "Success"
      /\ (id \notin call.out.sh /\ id \in DOMAIN call.perItem
          /\ call.perItem[id] = "Success") =>
           call.out.res[id] = IF call.tmo THEN "Timeout" ELSE "ValidationFailed"

C6_Witness ==
  /\ call.op = "reconcile"
  /\ ~call.tmo
  /\ DOMAIN call.perItem = Range(call.chunk)
  /\ \E id \in Range(call.chunk) :
       /\ call.perItem[id] = "LockFailed"
       /\ id \in call.out.sh
       /\ call.out.res[id] = "Success"
  /\ \E id \in Range(call.chunk) :
       /\ call.perItem[id] = "Success"
       /\ id \notin call.out.sh
       /\ call.out.res[id] = "ValidationFailed"

\* C7: a worker whose hard timeout expired returns through the reconcile
\* loop: each identifier of its chunk is Success if its shared directory
\* hasFiles and Timeout otherwise.
C7_TimedOutWorkerReconciles ==
  \A t \in Threads :
    timedOut[t] =>
      /\ wpc[t] \in {"wait", "returned"}
      /\ wpc[t] = "returned" =>
           \A id \in Range(Chunk(t)) :
             skinResults[id] = IF id \in shared THEN "Success" ELSE "Timeout"

C7_Witness ==
  \E t \in Threads :
    /\ timedOut[t]
    /\ wpc[t] = "returned"
    /\ \E id \in Range(Chunk(t)) : skinResults[id] = "Success"
    /\ \E id \in Range(Chunk(t)) : skinResults[id] = "Timeout"

\* C8: passes are numbered 1, 2, ... and never beyond 4; after pass k the
\* controller dispatches pass k+1 (at once, or after its back-off) exactly if
\* the collected failed set is not empty and k < 4, and otherwise ends with
\* the report written; no pass has an empty working set.
C8_PassBudget ==
  [][/\ pass' \in {pass, pass + 1}
     /\ pass' <= 4
     /\ pass' = pass + 1 => (workset' # <<>> /\ \E t \in Threads : wpc'[t] = "start")
     /\ (pass >= 1 /\ pass' = pass + 1) =>
          (ctl \in {"join", "backoff"} /\ AllJoined)
     /\ (pass >= 1 /\ ctl = "join" /\ AllJoined) =>
          IF collectFailed(toProcess) # <<>> /\ pass < 4
          THEN \/ /\ pass' = pass + 1 /\ ctl' = "join"
                  /\ workset' = collectFailed(toProcess)
               \/ pass' = pass /\ ctl' = "backoff"
          ELSE pass' = pass /\ ctl' = "exited" /\ report'.written
     /\ ctl = "backoff" =>
          /\ pass' = pass + 1 /\ ctl' = "join"
          /\ workset' = collectFailed(toProcess)]_vars

C8_Witness ==
  /\ ctl = "exited"
  /\ pass = 4
  /\ report.written
  /\ report.failed # <<>>

\* C9: the working set of a retry pass is the first pass's working set
\* restricted, in order, to the identifiers whose outcome is neither Success
\* nor Skipped, unobserved ones included.
C9_RetrySetIsAllNotSucceeded ==
  [][(pass >= 1 /\ pass' = pass + 1) =>
       workset' = SelectSeq(toProcess,
                            LAMBDA id: skinResults[id] \notin {"Success", "Skipped"})]_vars

\* C10 as stated: each retry pass runs with half the bound of the pass
\* before it (at least 1).
C10_HalvedAtEveryRetry ==
  [][(pass >= 1 /\ pass' = pass + 1) =>
       instances' = IF instances \div 2 > 1 THEN instances \div 2 ELSE 1]_vars

\* C10 amended: pass 1 runs with the user's bound and every retry pass with
\* max(1, floor(bound / 2)) of that same bound; each pass starts
\* min(bound of the pass, size of its working set) workers.
C10_HalvedOnce ==
  [][pass' = pass + 1 =>
       /\ instances' = IF pass = 0 THEN maxInstances'
                       ELSE IF maxInstances \div 2 > 1 THEN maxInstances \div 2
                       ELSE 1
       /\ Cardinality({t \in Threads : wpc'[t] = "start"})
            = IF instances' < Len(workset') THEN instances' ELSE Len(workset')]_vars

C10_Witness ==
  /\ pass >= 3
  /\ maxInstances >= 4
  /\ instances = maxInstances \div 2
  /\ Cardinality({t \in Threads : wpc[t] # "idle"}) = 2


\* The sum of the five failure-kind counters.
FailureCounters(c) ==
  c.timeout + c.ratelimit + c.lockFail + c.validationFail + c.error

\* No worker of the current pass is between its start and its return: either
\* all have joined, or the controller has just dispatched the pass.
PassBoundary ==
  /\ pass >= 1
  /\ AllJoined \/ \A t \in Threads : wpc[t] \in {"idle", "start"}

\* C11: at every pass boundary (the workers joined, and again after the
\* counters were reset for the retry) totalProcessed is successCount plus the
\* five failure-kind counters, and failedCount is the sum of those five.
C11_ProcessedIsSumOfCounters ==
  PassBoundary =>
    /\ cnt.total = cnt.success + FailureCounters(cnt)
    /\ cnt.failed = FailureCounters(cnt)

C11_Witness ==
  /\ pass >= 2
  /\ AllJoined
  /\ \E t \in Threads : wpc[t] = "returned"
  /\ cnt.success >= 1
  /\ cnt.failed >= 1

RECURSIVE Flatten(_, _)
Flatten(cs, i) == IF i > Len(cs) THEN <<>> ELSE cs[i] \o Flatten(cs, i + 1)

\* C12: for a non-empty working set and a bound N >= 1 runPass makes exactly
\* min(N, size) chunks, none empty, pairwise disjoint, whose concatenation in
\* index order is the working set in its order, with sizes at most one apart.
C12_PartitionOfWorkingSet ==
  (call.op = "runPass" /\ call.toDownload # <<>>) =>
    LET c == call.chunks IN
    /\ Len(c) = Min(call.instances, Len(call.toDownload))
    /\ \A i \in 1..Len(c) : c[i] # <<>>
    /\ \A i, j \in 1..Len(c) : i # j => Range(c[i]) \cap Range(c[j]) = {}
    /\ Flatten(c, 1) = call.toDownload
    /\ \A i, j \in 1..Len(c) : Len(c[i]) - Len(c[j]) <= 1

C12_Witness ==
  /\ call.op = "runPass"
  /\ Len(call.toDownload) = MaxSetLen
  /\ Len(call.chunks) = 3
  /\ \E i, j \in 1..Len(call.chunks) : Len(call.chunks[i]) # Len(call.chunks[j])

\* C13: an identifier recorded Success has files in its shared directory and
\* no longer has a directory with files in any per-instance install tree.
C13_SuccessLeavesNoInstanceCopy ==
  \A id \in Ids :
    skinResults[id] = "Success" =>
      /\ id \in shared
      /\ \A t \in Threads : id \notin inst[t]

\* The workers whose chunk holds the identifier.
WorkersOf(id) == {t \in Threads : id \in Range(Chunk(t))}

\* Worker t returns from its reconcile loop in this step.
Reconciles(t) == wpc[t] = "wait" /\ wpc'[t] = "returned"

\* C14: within a pass every identifier of the working set is in the chunk of
\* exactly one worker and once; an outcome or a shared destination directory
\* changes only in the step of the one worker that holds the identifier, and
\* a worker that has returned does not run again in the same pass.
C14_OneWorkerPerIdentifier ==
  /\ [](pass >= 1 =>
          /\ \A id \in Range(workset) : Cardinality(WorkersOf(id)) = 1
          /\ \A t \in Threads : Cardinality(Range(Chunk(t))) = Len(Chunk(t)))
  /\ [][(pass >= 1 /\ pass' = pass) =>
          /\ (skinResults' # skinResults \/ shared' # shared) =>
               \A id \in Ids :
                 (skinResults'[id] # skinResults[id] \/ (id \in shared') # (id \in shared))
                   => \E t \in WorkersOf(id) : Reconciles(t)
          /\ wpc' # wpc =>
               /\ \A t \in Threads :
                    Reconciles(t) => \A u \in Threads : Reconciles(u) => t = u
               /\ \A t \in Threads :
                    Returned(t) => wpc'[t] \in {wpc[t], "idle"}]_vars

C14_Witness ==
  /\ pass >= 1
  /\ \E t, u \in Threads :
       /\ t # u
       /\ wpc[t] = "returned" /\ wpc[u] = "returned"
       /\ \E id \in Range(Chunk(t)) : skinResults[id] = "Success"
       /\ \E id \in Range(Chunk(u)) : skinResults[id] \in FailureKinds

\* Worker t is between its start and its return.
Running(t) == wpc[t] \in {"start", "wait"}

\* C15: two workers that run at the same time have different install
\* directories, script files and log files; a pass starts the workers with
\* the indices 0..n-1, and an index (with its directory) is given to a new
\* worker only when every worker of the pass before has returned.
C15_NoSharedInstanceFiles ==
  /\ [](\A t, u \in Threads :
          (t # u /\ Running(t) /\ Running(u)) =>
            /\ instanceDir(t) # instanceDir(u)
            /\ scriptPath(t) # scriptPath(u)
            /\ logPath(pass, t) # logPath(pass, u))
  /\ [][\A t \in Threads :
          (wpc'[t] = "start" /\ wpc[t] # "start") =>
            /\ \A u \in Threads : ~Running(u)
            /\ pass' = pass + 1
            /\ {u \in Threads : wpc'[u] = "start"} = 0..(Len(chunks') - 1)
            /\ \A u \in Threads : u <= t => logPath(pass', u) # logPath(pass, u)]_vars

C15_Witness ==
  /\ pass >= 2
  /\ Running(0) /\ Running(1)
  /\ wpc[0] = "wait" /\ wpc[1] = "wait"

\* The controller steps that clean: the first dispatch (cleanSharedPatchFiles
\* at the head of runPass) and every retry dispatch (the wipe of all instance
\* staging directories and cleanSharedPatchFiles, twice).
ControllerCleans == pass' = pass + 1

\* C16: the controller cleans the shared staging area and the staging
\* directories of the instances only while no worker runs: no worker is
\* between its start and its return when such a step begins, the workers of
\* the new pass have not executed anything when it ends, and while a worker
\* executes the controller takes no step.
C16_CleaningOnlyBetweenPasses ==
  [][/\ ControllerCleans =>
          /\ \A t \in Threads : ~Running(t)
          /\ \A t \in Threads : wpc'[t] \in {"idle", "start"}
          /\ \A t \in Threads : proc'[t] = "none"
     /\ (\E t \in Threads : Running(t)) =>
          (pass' = pass /\ ctl' = ctl /\ chunks' = chunks)]_vars

C16_Witness ==
  /\ pass >= 2
  /\ \A t \in Threads : wpc[t] \in {"idle", "start"}
  /\ \E t \in Threads : wpc[t] = "start"
  /\ shared # {}

\* Every worker of the current pass ran the tool and returned through its
\* reconcile loop, and every dispatched identifier has its files in the
\* shared tree.
PassDelivered ==
  /\ ctl = "join"
  /\ pass >= 1
  /\ AllJoined
  /\ \A t \in Threads : t < Len(chunks) => wpc[t] = "returned"
  /\ \A id \in Range(toProcess) : id \in shared

\* C17: when the tool has delivered every identifier still failing in some
\* pass, the run ends there: no further pass, every dispatched identifier is
\* Success, failedCount and the failure-kind counters are 0.
C17_ConvergesWhenDelivered ==
  [][PassDelivered =>
       /\ pass' = pass
       /\ ctl' = "exited"
       /\ \A id \in Range(toProcess) : skinResults'[id] = "Success"
       /\ cnt'.failed = 0
       /\ cnt'.timeout = 0 /\ cnt'.ratelimit = 0 /\ cnt'.lockFail = 0
       /\ cnt'.validationFail = 0 /\ cnt'.error = 0]_vars

\* C18: with the skip-existing answer y and files in the shared directory of
\* every input identifier, main records every identifier Skipped and returns
\* 0 without a pass: no worker and no external process is started,
\* successCount and failedCount stay 0, the trees and the report files are
\* left as they were.
C18_SkipExistingDoesNothing ==
  [][\A answer \in Answers, prevFailed \in SUBSET Ids, prevFailedCh \in BOOLEAN :
       (/\ ctl = "input"
        /\ Range(allIds) \subseteq shared
        /\ BuildAndDispatchWith(answer, TRUE, prevFailed, prevFailedCh)) =>
         /\ ctl' = "exited" /\ exitCode' = 0
         /\ pass' = 0 /\ toProcess' = <<>>
         /\ \A id \in Range(allIds) : skinResults'[id] = "Skipped"
         /\ cnt'.skipped = Len(allIds)
         /\ cnt'.success = 0 /\ cnt'.failed = 0 /\ cnt'.total = 0
         /\ \A t \in Threads : wpc'[t] = "idle" /\ proc'[t] = "none"
         /\ shared' = shared /\ inst' = inst /\ report' = report]_vars

C18_Witness ==
  /\ ctl = "exited" /\ exitCode = 0 /\ pass = 0
  /\ Len(allIds) = NumIds
  /\ Range(allIds) \subseteq shared
  /\ \A id \in Range(allIds) : skinResults[id] = "Skipped"
  /\ cnt.skipped = NumIds

\* C19: when a run ends, failed_ids.txt lists, in input order, exactly the
\* input identifiers whose outcome is neither Success nor Skipped, so that a
\* following retry-only run skips exactly the others.
C19_FailedListIsAllNotSucceeded ==
  (ctl = "exited" /\ report.written) =>
    /\ report.failed =
         SelectSeq(allIds, LAMBDA id: skinResults[id] \notin {"Success", "Skipped"})
    /\ \A id \in Range(allIds) :
         Skip(id, FALSE, TRUE, Range(report.failed))
           <=> skinResults[id] \in {"Success", "Skipped"}

Written == call.op = "patcher" /\ call.pc = "done" /\ call.opened

\* The lines of the manifest when the execution started, and what was added.
InLines == ReadAcf(call.orig)

OutLines == ReadAcf(call.acfFile)

InstalledBlock == splitLines(installedInsert(call.acf, call.toAdd))

DetailsBlock == splitLines(detailsInsert(call.acf, call.toAdd))

AddedTo(ids) == {k \in 1..Len(call.toAdd) : call.toAdd[k].id \notin ids}

\* How far into a its lines are matched, in order, by the lines lo..hi of b,
\* with the first i - 1 lines of a matched before.
RECURSIVE MatchFrom(_, _, _, _, _)
MatchFrom(a, b, i, lo, hi) ==
  IF lo > hi THEN i
  ELSE IF lo = hi THEN (IF i <= Len(a) /\ a[i] = b[lo] THEN i + 1 ELSE i)
  ELSE LET mid == (lo + hi) \div 2
       IN  CHOOSE r \in {MatchFrom(a, b, half, mid + 1, hi) :
                           half \in {MatchFrom(a, b, i, lo, mid)}} : TRUE

IsSubsequence(a, b) == MatchFrom(a, b, 1, 1, Len(b)) > Len(a)

\* b is a with the block x inserted before line index i and the block y
\* before line index j >= i (indices from 0).
TwoBlocks(a, b, i, x, j, y) ==
  b = SubSeq(a, 1, i) \o x \o SubSeq(a, i + 1, j) \o y
        \o SubSeq(a, j + 1, Len(a))

\* C21: after a write the lines read from the input manifest are a
\* subsequence of the output in the same order, and the additional output lines
\* are whole generated entries (6 lines per Installed entry, 8 per Details
\* entry) that lie in the output as contiguous blocks.
C21_OnlyWholeEntriesAdded ==
  Written =>
    /\ IsSubsequence(InLines, OutLines)
    /\ Len(InstalledBlock) = 6 * Cardinality(AddedTo(call.acf.installedIds))
    /\ Len(DetailsBlock) = 8 * Cardinality(AddedTo(call.acf.detailsIds))
    /\ \E i \in 0..Len(InLines) : \E j \in i..Len(InLines) :
         \/ TwoBlocks(InLines, OutLines, i, InstalledBlock, j, DetailsBlock)
         \/ TwoBlocks(InLines, OutLines, i, DetailsBlock, j, InstalledBlock)

\* What the patcher's own parser finds in the manifest as it is now.
OutAcf == parseAcf(OutLines)

\* The block lies in the output directly before line index close.
DirectlyBefore(block, close) ==
  /\ close >= Len(block)
  /\ SubSeq(OutLines, close - Len(block) + 1, close) = block

\* C22: after a write, whichever section comes first in the manifest, the
\* inserted Installed entries lie directly before the closing-brace line of the
\* WorkshopItemsInstalled section and the inserted Details entries directly
\* before the closing-brace line of the WorkshopItemDetails section, inside
\* that section at depth 2.
C22_InsertedBeforeSectionClose ==
  Written =>
    /\ DirectlyBefore(InstalledBlock, OutAcf.installedCloseLineIdx)
    /\ DirectlyBefore(DetailsBlock, OutAcf.detailsCloseLineIdx)
    /\ \A k \in AddedTo(call.acf.installedIds) :
         call.toAdd[k].id \in OutAcf.installedIds
    /\ \A k \in AddedTo(call.acf.detailsIds) :
         call.toAdd[k].id \in OutAcf.detailsIds

\* C23: an execution started on the manifest an earlier execution wrote, the
\* content folder as it was, finds no identifier to add (it ends at the
\* "already up to date" exit, before the prompt) and leaves the manifest
\* byte-identical.
C23_SecondRunChangesNothing ==
  (call.op = "patcher" /\ call.patched) =>
    /\ call.pc \in {"load", "done"}
    /\ call.toAdd = <<>>
    /\ ~call.opened
    /\ call.acfFile = call.orig

\* The directories the scan queues an entry for when a section lacks them.
Qualifies(e) == e.isDir /\ isAllDigits(e.name) /\ e.hasFiles

\* The number of entries of id in section sec of a manifest: the lines at
\* depth 2 of the section whose first quoted token is id.
EntryCount(lines, sec, id) ==
  Cardinality(
    {i \in 0..(Len(lines) - 1) :
       /\ firstQuotedToken(trimStr(lines[i + 1])) = id
       /\ LET st == ParseAcfFrom(NewAcfInfo, lines, 0, i - 1)
          IN  st.depth = 2 /\ st.cur = sec})

\* C24: after a write, every all-digit subdirectory that hasFiles has gained
\* one entry in each section that lacked it and none in a section that had
\* it, so that no identifier has two entries in a section, and no other
\* directory entry (empty, non-numeric, not a directory) has gained an entry.
C24_EntryWhereMissing ==
  Written =>
    \A e \in call.contentDir : \A sec \in {"Installed", "Details"} :
      EntryCount(OutLines, sec, e.name)
        = IF Qualifies(e) /\ EntryCount(InLines, sec, e.name) = 0
            THEN 1
            ELSE EntryCount(InLines, sec, e.name)

\* C25: when parseAcf does not locate the closing-brace line of both
\* sections in the manifest the execution started on, the patcher stops with
\* exit code 1 before the scan: it never reaches the prompt, never opens the
\* manifest for writing, and the manifest file is as it was.
C25_NoWriteWithoutBothSections ==
  (/\ call.op = "patcher"
   /\ \/ parseAcf(InLines).installedCloseLineIdx < 0
      \/ parseAcf(InLines).detailsCloseLineIdx < 0) =>
    /\ call.pc \in {"load", "done"}
    /\ call.pc = "done" => call.exit = 1
    /\ ~call.opened
    /\ call.acfFile = call.orig

\* One section is located, the other is not, a directory is waiting to be
\* added, and the patcher has stopped.
C25_Witness ==
  /\ call.op = "patcher" /\ call.pc = "done" /\ call.exit = 1
  /\ call.lines # <<>>
  /\ call.acf.installedCloseLineIdx >= 0 /\ call.acf.detailsCloseLineIdx < 0
  /\ \E e \in call.contentDir : Qualifies(e) /\ ~Present(call.acf, e.name)
  /\ call.acfFile = call.orig

AddedIds(ids) == {call.toAdd[k].id : k \in AddedTo(ids)}

\* The lines that go in before the closing line that was at index idx: the
\* buffer of every section whose closing line was at or before it.
InsertedBefore(idx) ==
  (IF call.acf.installedCloseLineIdx <= idx THEN Len(InstalledBlock) ELSE 0)
    + (IF call.acf.detailsCloseLineIdx <= idx THEN Len(DetailsBlock) ELSE 0)

\* C27: after the patcher spliced its entries into a well-formed manifest,
\* parseAcf on the result reports every identifier that got an Installed
\* (Details) entry in installedIds (detailsIds) together with exactly the
\* identifiers it reported before, ends at brace depth 0, and reports each
\* section's closing index shifted by the number of lines inserted before it.
C27_EntriesRoundTrip ==
  (Written /\ call.acf.depth = 0) =>
    /\ OutAcf.installedIds
         = call.acf.installedIds \cup AddedIds(call.acf.installedIds)
    /\ OutAcf.detailsIds
         = call.acf.detailsIds \cup AddedIds(call.acf.detailsIds)
    /\ OutAcf.depth = 0
    /\ OutAcf.installedCloseLineIdx
         = call.acf.installedCloseLineIdx
             + InsertedBefore(call.acf.installedCloseLineIdx)
    /\ OutAcf.detailsCloseLineIdx
         = call.acf.detailsCloseLineIdx
             + InsertedBefore(call.acf.detailsCloseLineIdx)

\* ------------------------------------------------------------ log classifier
\* The outcome the precedence rule gives a reason: OK or Success, then
\* Locking Failed or locked, then Timeout, then rate or Rate, else Error.
ByPrecedence(r) ==
  CASE "OK" \in r \/ "Success" \in r -> "Success"
    [] ~("OK" \in r \/ "Success" \in r)
       /\ ("Locking Failed" \in r \/ "locked" \in r) -> "LockFailed"
    [] r \cap {"OK", "Success", "Locking Failed", "locked"} = {}
       /\ "Timeout" \in r -> "Timeout"
    [] r \cap {"OK", "Success", "Locking Failed", "locked", "Timeout"} = {}
       /\ ("rate" \in r \/ "Rate" \in r) -> "RateLimit"
    [] OTHER -> "Error"

\* The item's outcome is what the precedence rule gives the line's reason
\* and exactly the global flag of that outcome is set.
ClassifiedByPrecedence ==
  LET sr == ByPrecedence(call.line.reason)
  IN  /\ call.out.perItem[call.line.id] = sr
      /\ call.out.globalLockFailed = (sr = "LockFailed")
      /\ call.out.globalTimeout = (sr = "Timeout")
      /\ call.out.globalRateLimit = (sr = "RateLimit")
      /\ ~call.out.globalValidationFail

Classified(kind) ==
  /\ call.op = "parseSteamCmdLog" /\ call.line.kind = kind
  /\ call.line.id \in Range(call.chunk)

\* C28: a result line whose identifier is in the chunk sets the item's
\* outcome by the precedence OK/Success, Locking Failed/locked, Timeout,
\* rate/Rate, else Error, and sets the global flag of that outcome and no
\* other; a Success result sets no global flag.
C28_ResultLinePrecedence == Classified("result") => ClassifiedByPrecedence

\* A result line whose reason contains both a lock and a timeout marker (and
\* a rate marker) is LockFailed, and only the lock flag is set.
C28_Witness ==
  /\ Classified("result")
  /\ {"locked", "Timeout", "rate"} \subseteq call.line.reason
  /\ call.out.perItem[call.line.id] = "LockFailed"
  /\ call.out.globalLockFailed /\ ~call.out.globalTimeout

\* C29: an ERROR! line classifies its reason with the same rules as a result
\* line (Locking Failed/locked gives LockFailed and the lock flag, Timeout
\* gives Timeout and the timeout flag, rate/Rate gives RateLimit and the
\* rate-limit flag, anything else Error) and sets lastId to the identifier.
C29_ErrorLineSameRules ==
  Classified("error") =>
    /\ "OK" \notin call.line.reason /\ "Success" \notin call.line.reason
         => ClassifiedByPrecedence
    /\ call.out.lastId = call.line.id
\* -------------------------------------------------------------- input parser
\* The runs of MIN_ID_DIGITS to MAX_ID_DIGITS digits of a text that have a
\* double quote directly before and directly after them, and where the first
\* such occurrence of a run begins.
QuotedRunAt(text, i, run) ==
  /\ Len(run) \in IdReLengths
  /\ IdReMatches(text, i, Len(run))
  /\ SubSeq(text, i + 1, i + Len(run)) = run

QuotedRuns(text) ==
  {SubSeq(text, i + 1, i + n) : <<i, n>> \in
     {x \in (1..Len(text)) \X IdReLengths : IdReMatches(text, x[1], x[2])}}

FirstQuoted(text, run) ==
  SetMin({i \in 1..Len(text) : QuotedRunAt(text, i, run)})

ParsedNoDuplicates ==
  \A p, q \in 1..Len(call.out) : call.out[p] = call.out[q] => p = q

ParsedInFileOrder ==
  \A p, q \in 1..Len(call.out) :
    p < q => FirstQuoted(call.text, call.out[p])
               < FirstQuoted(call.text, call.out[q])

ParsedAreQuotedRuns ==
  \A p \in 1..Len(call.out) : call.out[p] \in QuotedRuns(call.text)

QuotedRunsAreParsed ==
  \A run \in QuotedRuns(call.text) :
    \E p \in 1..Len(call.out) : call.out[p] = run

\* C30: parseIds returns a sequence without duplicates, ordered by the first
\* occurrence of each identifier in the file; every element is a run of 6 to
\* 12 digits enclosed in double quotes in the input, and every such quoted
\* run of the input is in the result.
C30_ParseIdsQuotedRuns ==
  call.op = "parseIds" =>
    /\ ParsedNoDuplicates
    /\ ParsedAreQuotedRuns
    /\ ParsedInFileOrder
    /\ QuotedRunsAreParsed

\* ------------------------------------------------- classifier, line by line
\* Line i of the parsed log is an identifier-less failure line; the flag it
\* raises and the outcome it upgrades to.
IdLessFailure(i) == call.log[i].kind \in {"validationNoId", "patchLock"}

FlagOf(st, i) ==
  IF call.log[i].kind = "validationNoId"
  THEN st.globalValidationFail ELSE st.globalLockFailed

UpgradeOf(i) ==
  IF call.log[i].kind = "validationNoId" THEN "ValidationFailed" ELSE "LockFailed"

\* C31: an identifier-less failure line always sets its global flag; it
\* changes the outcome of the last seen identifier only, and only from Error
\* or Unknown, to ValidationFailed resp. LockFailed; it overwrites no other
\* outcome and touches no other identifier.
C31_IdLessFailureUpgradesLastOnly ==
  (call.op = "parseLog" /\ call.log # Unreadable) =>
    \A i \in 1..Len(call.log) :
      IdLessFailure(i) =>
        LET before == call.trace[i]
            after == call.trace[i + 1]
        IN  /\ FlagOf(after, i)
            /\ DOMAIN after.perItem = DOMAIN before.perItem
            /\ \A id \in DOMAIN before.perItem :
                 IF id = before.lastId /\ before.perItem[id] \in {"Error", "Unknown"}
                 THEN after.perItem[id] = UpgradeOf(i)
                 ELSE after.perItem[id] = before.perItem[id]

\* An identifier-less failure line has upgraded the last seen identifier from
\* Error while the other identifier of the chunk, still Unknown, stays so.
C31_Witness ==
  /\ call.op = "parseLog" /\ call.log # Unreadable
  /\ \E i \in 1..Len(call.log), id \in Ids :
       /\ IdLessFailure(i)
       /\ id \in DOMAIN call.trace[i].perItem
       /\ call.trace[i].perItem[id] = "Error"
       /\ call.trace[i + 1].perItem[id] = UpgradeOf(i)
       /\ \E other \in DOMAIN call.trace[i].perItem \ {id} :
            call.trace[i + 1].perItem[other] = "Unknown"

\* The identifier a line carries (0: none).
Mentions(i, id) == call.log[i].id = id

\* C32: for a readable log the per-item map has exactly the chunk's
\* identifiers as keys; a chunk identifier that no line names remains
\* Unknown, and a line that names an identifier outside the chunk adds no
\* entry and changes no outcome.
C32_PerItemKeysAreChunk ==
  (call.op = "parseLog" /\ call.log # Unreadable) =>
    /\ DOMAIN call.out.perItem = Range(call.chunk)
    /\ call.out = call.trace[Len(call.trace)]
    /\ \A id \in Range(call.chunk) :
         (\A i \in 1..Len(call.log) : ~Mentions(i, id))
           => call.out.perItem[id] = "Unknown"
    /\ \A i \in 1..Len(call.log) :
         (call.log[i].id # 0 /\ call.log[i].id \notin Range(call.chunk))
           => call.trace[i + 1].perItem = call.trace[i].perItem

\* A readable log that names an identifier outside the chunk and gives an
\* outcome to an identifier of the chunk.
C32_Witness ==
  /\ call.op = "parseLog" /\ call.log # Unreadable
  /\ \E i, j \in 1..Len(call.log) :
       /\ call.log[i].id # 0 /\ call.log[i].id \notin Range(call.chunk)
       /\ call.log[j].id \in Range(call.chunk)
       /\ call.out.perItem[call.log[j].id] # "Unknown"

\* ------------------------------------------------ worker, spawn failures
\* The log gives no outcome to an identifier of the chunk (it is unreadable,
\* or no line names one) and the worker did not time out: what is left when
\* the external tool could not be started.
NothingAttributed ==
  /\ call.op = "reconcile"
  /\ ~call.tmo
  /\ \A id \in Range(call.chunk) :
       id \in DOMAIN call.perItem => call.perItem[id] = "Unknown"

\* C33 as stated: after a failed spawn the worker records Unknown for every
\* identifier of the chunk without files and Success for those whose shared
\* directory hasFiles.
C33_SpawnFailureRecordsUnknown ==
  NothingAttributed =>
    \A id \in Range(call.chunk) :
      call.out.res[id] = IF id \in call.out.sh THEN "Success" ELSE "Unknown"

\* C33 amended: after a failed spawn the worker records Error for every
\* identifier of the chunk whose shared directory has no files after the move
\* attempt and Success for those whose shared directory hasFiles; no entry of
\* the chunk is left Unknown, and each Error is counted in errorCount and
\* failedCount.
C33_SpawnFailureRecordsError ==
  NothingAttributed =>
    /\ \A id \in Range(call.chunk) :
         call.out.res[id] = IF id \in call.out.sh THEN "Success" ELSE "Error"
    /\ call.out.c.error
         = Cardinality({id \in Range(call.chunk) : id \notin call.out.sh})
    /\ call.out.c.failed = call.out.c.error
    /\ call.out.c.success
         = Cardinality({id \in Range(call.chunk) : id \in call.out.sh})

C33_Witness ==
  /\ NothingAttributed
  /\ \E id \in Range(call.chunk) : call.out.res[id] = "Success"
  /\ \E id \in Range(call.chunk) : call.out.res[id] = "Error"

\* -------------------------------------------------- worker, hard timeout
\* The worker is past the expiry of its hard timeout.
Expired == call.op = "workerInstance" /\ call.timedOut

\* On expiry the worker issues the kill, sets timedOut and leaves the loop.
KillOnExpiry ==
  call.op = "workerInstance" =>
    /\ call.timedOut <=> call.kills = 1
    /\ call.kills \in {0, 1}
    /\ call.timedOut =>
         (call.pc \in {"join", "parse"} /\ call.elapsed > instanceTimeout(call.n))

\* After the expiry the worker does not wait for the tool: it can go on to
\* the log whether the process still runs or not.
NoWaitAfterExpiry ==
  (Expired /\ call.pc = "join" /\ call.tool = "running") => ENABLED JoinReturns

\* A process that ended by itself within the timeout is not killed.
NoKillWhenFinishedInTime ==
  (call.op = "workerInstance" /\ call.exitedAt # -1
   /\ call.exitedAt <= instanceTimeout(call.n)) =>
    (call.kills = 0 /\ ~call.timedOut)

\* C34: when the hard timeout (elapsed > 90 x chunk size seconds, process not
\* finished) expires the worker issues the kill, sets timedOut and goes on to
\* classification and reconcile without waiting any further for the process,
\* even if it still runs; if the process finishes before the timeout, no kill
\* is issued and timedOut stays false.
C34_HardTimeoutStopsWaiting ==
  /\ KillOnExpiry
  /\ NoWaitAfterExpiry
  /\ NoKillWhenFinishedInTime

\* ------------------------------------------------ controller, rate limit
\* C35: every pass starts with the rate-limit flag false.  When the workers
\* of a pass have joined, a retry pass is to be dispatched and the flag is
\* set, the controller sleeps 2 x 30 s and clears the flag before a worker of
\* the next pass starts; with the flag clear it dispatches without sleeping.
C35_BackoffBetweenPasses ==
  /\ ctl # "backoff"
  /\ [][/\ ctl' = "backoff" =>
             /\ call'.op = "sleep_for" /\ call'.seconds = 2 * 30
             /\ anyRateLimitDetected'
             /\ \A t \in Threads : wpc'[t] \in {"idle", "aborted", "returned"}
        /\ pass' = pass + 1 =>
             /\ ~anyRateLimitDetected'
             /\ ctl = "backoff" <=> anyRateLimitDetected
        /\ (anyRateLimitDetected /\ ~anyRateLimitDetected') =>
             /\ ctl = "backoff"
             /\ pass' = pass + 1
             /\ \A t \in Threads : wpc'[t] \in {"idle", "start"}
        /\ ctl' = "backoff" => ctl \in {"join", "backoff"}
        /\ (ctl = "join" /\ AllJoined /\ anyRateLimitDetected /\ ctl' = "join") =>
             pass' = pass]_vars

\* The controller is in the back-off before the second retry pass.
C35_Witness ==
  /\ ctl = "backoff"
  /\ pass = 2
  /\ call.op = "sleep_for"

\* --------------------------------------------- counters and the OutcomeMap
\* The number of identifiers whose entry in skinResults is sr.
Holding(sr) == Cardinality({id \in Ids : skinResults[id] = sr})

CountersMatchOutcomes ==
  PassBoundary =>
    /\ cnt.success = Holding("Success")
    /\ cnt.skipped = Holding("Skipped")
    /\ cnt.timeout = Holding("Timeout")
    /\ cnt.ratelimit = Holding("RateLimit")
    /\ cnt.lockFail = Holding("LockFailed")
    /\ cnt.validationFail = Holding("ValidationFailed")
    /\ cnt.error = Holding("Error")

CountersNotNegative ==
  /\ cnt.success >= 0 /\ cnt.skipped >= 0 /\ cnt.failed >= 0
  /\ cnt.timeout >= 0 /\ cnt.ratelimit >= 0 /\ cnt.lockFail >= 0
  /\ cnt.validationFail >= 0 /\ cnt.error >= 0 /\ cnt.total >= 0

\* The step in which the controller prepares and dispatches a retry pass.
RetrySetResetStep ==
  (pass >= 1 /\ pass' = pass + 1) =>
    /\ \A i \in 1..Len(workset') : skinResults'[workset'[i]] = "Unknown"
    /\ cnt'.failed = 0
    /\ FailureCounters(cnt') = 0

\* C36: at every pass boundary each aggregate counter is the number of
\* identifiers holding that outcome in skinResults (Unknown counted nowhere),
\* no counter is ever negative, and directly after the reset for a retry
\* every identifier of the retry set is Unknown and failedCount and the five
\* failure-kind counters are 0.
C36_CountersMatchOutcomeMap ==
  /\ [](CountersMatchOutcomes /\ CountersNotNegative)
  /\ [][RetrySetResetStep]_vars

\* ------------------------------------------- worker, killed by another's
\* The instance log holds no line for the identifier.
NoLineFor(log, id) == \A i \in 1..Len(log) : log[i].id # id

\* The step in which worker t finds its hard timeout expired.
KillEndsEveryTool(t) ==
  (timedOut'[t] /\ ~timedOut[t]) =>
    /\ \A u \in Threads : proc'[u] # "running"
    /\ \A u \in Threads \ {t} : timedOut'[u] = timedOut[u]

\* The step in which worker t, not timed out itself, reconciles its chunk.
NotTimedOutRecordsError(t) ==
  (wpc[t] = "wait" /\ wpc'[t] = "returned" /\ ~timedOut[t]) =>
    \A id \in Range(Chunk(t)) :
      /\ skinResults'[id] \notin {NoEntry, "Unknown"}
      /\ (id \notin shared' /\ NoLineFor(call'.log, id)) =>
           /\ skinResults'[id] = "Error"
           /\ id \in Range(SelectSeq(toProcess, LAMBDA x :
                  skinResults'[x] \notin {NoEntry, "Success", "Skipped"}))

\* C37: the hard-timeout kill of one worker ends the external tool of every
\* worker running at that moment and sets only the killer's timedOut; a
\* worker whose tool ended this way, not timed out itself, still records an
\* outcome for every identifier of its chunk, and an identifier with neither
\* files nor a log line is recorded Error, not Timeout, and stays retriable.
C37_KillHitsEveryWorker ==
  [][\A t \in Threads : KillEndsEveryTool(t) /\ NotTimedOutRecordsError(t)]_vars

\* Worker a has timed out; worker b, whose tool ended within its own timeout,
\* has returned with an identifier recorded Error.
C37_Witness ==
  \E a, b \in Threads :
    /\ a # b
    /\ timedOut[a] /\ wpc[a] = "wait" /\ proc[a] = "exited"
    /\ ~timedOut[b] /\ wpc[b] = "returned"
    /\ \E id \in Range(Chunk(b)) : id \notin shared /\ skinResults[id] = "Error"

\* ------------------------------------------------------------ cleanup tool
\* No skin that hasFiles in an instance directory is lost.
NoSkinLost ==
  call.op = "cleanup" =>
    \A t \in Threads : \A id \in call.inst0[t] : id \in shared \/ id \in inst[t]

\* No instance directory is deleted while it holds a regular file.
DeletedOnlyWhenEmpty ==
  call.op = "cleanup" =>
    /\ call.removedWithFiles = {}
    /\ \A t \in call.removed : inst[t] = {}

\* The step that processes an instance directory removes every skin whose
\* shared directory hasFiles and does not write to that shared directory.
DuplicateRemoved ==
  call'.i = call.i + 1 =>
    \A id \in inst[call.i] \cap shared :
      /\ id \notin inst'[call.i]
      /\ id \in shared'
      /\ id \in call'.written <=> id \in call.written

\* The same, with a duplicate whose removal fails left where it is, in an
\* instance directory that is kept.
DuplicateRemovedOrKept ==
  call'.i = call.i + 1 =>
    \A id \in inst[call.i] \cap shared :
      /\ id \in inst'[call.i] => call.i \notin call'.removed
      /\ id \in shared'
      /\ id \in call'.written <=> id \in call.written

====
